---------------------------- MODULE Spec2Model ----------------------------
(***************************************************************************)
(* A state-machine model of soundsync's peer link (communication/peer.ts), *)
(* the local device sink that follows a peer's clock, and the AirPlay RTP  *)
(* header codec.                                                           *)
(*                                                                         *)
(* Times are integers in milliseconds.  A time-delta sample may fall on a  *)
(* half millisecond (roundtripTime / 2) and a median of an even number of  *)
(* samples on a quarter millisecond, so samples, medians and timeDelta are *)
(* kept in quarter milliseconds (InQuarterMs).                             *)
(*                                                                         *)
(* One handler run is one action: JavaScript runs a handler to its end (or *)
(* to its next await) before anything else runs.  now() is an input of the *)
(* handler and is read once per handler run.                               *)
(***************************************************************************)
EXTENDS Integers, Sequences, FiniteSets, TLC

VARIABLES
    peers,        \* p -> the fields of Peer object p
    immediates,   \* the setImmediate queue: callbacks queued by setState, in order
    registered,   \* the peers the manager holds (unregisterPeer removes)
    promises,     \* rpc uuid -> the promise sendRcp returned for it
    inflight,     \* rpc requests whose handler has been called and not yet settled
    observed,     \* per peer: how often it entered 'connected', how many init timeouts it set
    sink,         \* the fields of the LocalDeviceSink and what it holds
    rtp,          \* an RTP header on its way through getRtpHeader and parseRtpHeader
    udp,          \* the fields of the AirplayUdpSocket and what its last handler run did
    relay,        \* the rendezvous relay: its requests, its connection to the store, the lists
    effects       \* what the last handler run did outside the peer: sends, emits, hooks

vars == <<peers, immediates, registered, promises, inflight, observed, sink, rtp, udp,
          relay, effects>>

---------------------------------------------------------------------------
(* Program constants                                                       *)

TIME_DELTAS_TO_KEEP == 100
MS_DIFF_TO_UPDATE_TIME_DELTA == 5
TIMESYNC_INIT_REQUEST_COUNT == 10
TIMEKEEPER_REFRESH_INTERVAL == 100

RTP_HEADER_A_EXTENSION == 16
RTP_HEADER_A_SOURCE == 15
RTP_HEADER_B_PAYLOAD_TYPE == 127
RTP_HEADER_B_MARKER == 128
RTP_HEADER_LENGTH == 4
RTP_NTP_TIMESTAMP_LENGTH == 8

RTP_PAYLOAD_TYPES ==
    [timingRequest |-> 82, timingResponse |-> 83, sync |-> 84, rangeResend |-> 85,
     audioData |-> 96]

(* Bounds of the model                                                     *)

\* how often one peer may enter 'connected' (a second entry needs setState('connecting'))
MaxEntered == 2
\* time-delta samples delivered to one peer while its ring is not flushed
MaxSamples == 11
\* how often the samples in a ring change value from one sample to the next
MaxJumps == 1
\* rpc requests whose handlers are running at the same time
MaxInFlight == 2
\* setImmediate callbacks that may be queued when a further handler starts
MaxQueued == 3
\* calls of waitForConnected on one peer whose promises are pending
MaxWaiting == 2
\* output streams open plus calls of _startSink suspended, before a sink is piped anew
MaxStarts == 2

---------------------------------------------------------------------------
(* The population                                                          *)

LocalPeer == "L"
Remote == {"A", "B"}
Peers == {LocalPeer} \cup Remote

\* getLocalPeer(): the one Peer object of this process (isLocal is true for it alone)
getLocalPeer == LocalPeer
isLocal(p) == p = getLocalPeer

States == {"connecting", "connected", "deleted"}
\* the states a transport asks for with setState; 'deleted' is set by destroy alone
Requested == {"connecting", "connected"}

\* peerInfo descriptors the remote side may send
PeerUuids == {"X"}
InstanceUuids == {"I1", "I2"}

\* rpc
RpcUuids == {1, 2}
RequestUuids == {7}
RpcTypes == {"ping", "nope"}
Bodies == {"r1"}

InQuarterMs(ms) == 4 * ms

\* Number.NaN: the median of no samples; it absorbs arithmetic
NaN == 0 - 1000000
Plus(a, b) == IF a = NaN \/ b = NaN THEN NaN ELSE a + b
Minus(a, b) == IF a = NaN \/ b = NaN THEN NaN ELSE a - b

---------------------------------------------------------------------------
(* Messages and effects                                                    *)

Message(type) ==
    [type |-> type, uuid |-> 0, rpcType |-> "", isResponse |-> FALSE,
     isError |-> FALSE, body |-> "", sentAt |-> 0, respondedAt |-> 0,
     peerUuid |-> "", instanceUuid |-> ""]

Effect(kind, p, m) == [kind |-> kind, peer |-> p, m |-> m]

\* The whole state as one value, so that a handler is a function World -> World
\* and a call of one method from another is function application.
World ==
    [peers |-> peers, immediates |-> immediates, registered |-> registered,
     promises |-> promises, inflight |-> inflight, observed |-> observed,
     sink |-> sink, rtp |-> rtp, udp |-> udp, relay |-> relay,
     effects |-> <<>>]

Commit(w) ==
    /\ peers' = w.peers
    /\ immediates' = w.immediates
    /\ registered' = w.registered
    /\ promises' = w.promises
    /\ inflight' = w.inflight
    /\ observed' = w.observed
    /\ sink' = w.sink
    /\ rtp' = w.rtp
    /\ udp' = w.udp
    /\ relay' = w.relay
    /\ effects' = w.effects

SetField(w, p, f, v) == [w EXCEPT !.peers[p][f] = v]
Did(w, kind, p, m) == [w EXCEPT !.effects = Append(@, Effect(kind, p, m))]

\* abstract sendControllerMessage: the transport's send is recorded
sendControllerMessage(w, p, m) == Did(w, "send", p, m)

---------------------------------------------------------------------------
(* BasicNumericStatsTracker (utils/basicNumericStatsTracker, spec 4.A)     *)

push(ring, x) ==
    IF Len(ring) >= TIME_DELTAS_TO_KEEP THEN Append(Tail(ring), x) ELSE Append(ring, x)

full(ring, k) == Len(ring) >= k

\* the k-th smallest sample, 1 <= k <= Len(ring)
Kth(ring, k) ==
    CHOOSE x \in {ring[i] : i \in DOMAIN ring} :
        /\ Cardinality({i \in DOMAIN ring : ring[i] < x}) < k
        /\ k <= Cardinality({i \in DOMAIN ring : ring[i] <= x})

median(ring) ==
    LET n == Len(ring) IN
    IF n = 0 THEN NaN
    ELSE IF n % 2 = 1 THEN Kth(ring, (n + 1) \div 2)
    ELSE (Kth(ring, n \div 2) + Kth(ring, (n \div 2) + 1)) \div 2

flush(ring) == <<>>

---------------------------------------------------------------------------
(* Peer.setState, Peer.destroy                                             *)

setState(w, p, s) ==
    IF w.peers[p].state = s THEN w
    ELSE IF w.peers[p].state = "deleted" THEN w
    ELSE LET w1 == SetField(w, p, "state", s)
             w2 == [w1 EXCEPT !.immediates = Append(@, <<p, s>>)]
         IN IF s = "connected"
            THEN [w2 EXCEPT !.observed[p].entered = @ + 1]
            ELSE w2

\* a removeAllListeners that removes nothing
removeAllListenersKeepsAll(w, p) == w

\* EventEmitter.removeAllListeners: the constructor's handlers and every waiter go
removeAllListeners(w, p) ==
    [w EXCEPT !.peers[p].listeners = FALSE,
              !.peers[p].timesyncWaiters = 0,
              !.peers[p].connectedWaiters = 0,
              !.peers[p].timedeltaListeners = 0]

\* PeersManager.unregisterPeer
unregisterPeer(w, p) == [w EXCEPT !.registered = @ \ {p}]

\* a destroy that does not return at once on a peer that is 'deleted'
destroyAgain(w, p, advertiseDestroy, canTryReconnect) ==
    LET w1 == IF advertiseDestroy
              THEN sendControllerMessage(w, p, Message("disconnect"))
              ELSE w
        w2 == setState(w1, p, "deleted")
        w3 == unregisterPeer(w2, p)
        w4 == SetField(w3, p, "timekeepInterval", FALSE)
        w5 == removeAllListeners(w4, p)
        w6 == Did(w5, "manager", p, Message("peerChange"))
    IN IF canTryReconnect
       THEN Did(w6, "hook", p, Message("onRemoteDisconnect"))
       ELSE w6

destroy(w, p, advertiseDestroy, canTryReconnect) ==
    IF w.peers[p].state = "deleted" THEN w
    ELSE LET w1 == IF advertiseDestroy
                   THEN sendControllerMessage(w, p, Message("disconnect"))
                   ELSE w
             w2 == setState(w1, p, "deleted")
             w3 == unregisterPeer(w2, p)
             w4 == SetField(w3, p, "timekeepInterval", FALSE)
             w5 == removeAllListeners(w4, p)
             w6 == Did(w5, "manager", p, Message("peerChange"))
         IN IF canTryReconnect
            THEN Did(w6, "hook", p, Message("onRemoteDisconnect"))
            ELSE w6

---------------------------------------------------------------------------
(* Peer.isTimeSynchronized, Peer.getCurrentTime (quarter milliseconds)     *)

isTimeSynchronized(w, p) ==
    p = getLocalPeer \/ full(w.peers[p].timedeltas, TIMESYNC_INIT_REQUEST_COUNT)

\* getCurrentTime that adds the committed timeDelta whatever realDelta says
getCurrentTimeCommitted(w, p, realDelta, now) ==
    IF p = getLocalPeer THEN InQuarterMs(now)
    ELSE Plus(InQuarterMs(now), w.peers[p].timeDelta)

getCurrentTime(w, p, realDelta, now) ==
    IF p = getLocalPeer THEN InQuarterMs(now)
    ELSE Plus(InQuarterMs(now),
              IF realDelta THEN median(w.peers[p].timedeltas) ELSE w.peers[p].timeDelta)

---------------------------------------------------------------------------
(* LocalDeviceSink                                                         *)

\* the write of delayFromLocalNowBuffer[0] is recorded as an effect of the sink
setDelayFromLocalNow(w, now) ==
    Did([w EXCEPT !.sink.delayFromLocalNow =
            Minus(Minus(Minus(getCurrentTime(w, w.sink.pipedSource.peer, TRUE, now),
                              InQuarterMs(w.sink.pipedSource.startedAt)),
                        InQuarterMs(w.sink.pipedSource.latency)),
                  InQuarterMs(now))],
        "write", w.sink.pipedSource.peer, Message("delayFromLocalNow"))

\* handleTimedeltaUpdate, the listener of 'timedeltaUpdated' and of the source's 'update'
handleTimedeltaUpdate(w, now) == setDelayFromLocalNow(w, now)

\* _startSink after its await
startSinkResumed(w, now) ==
    LET src == w.sink.pipedSource.peer
        \* starting: some call of _startSink is still suspended
        w1 == [w EXCEPT !.sink.starting =
                            \E q \in DOMAIN w.peers : w.peers[q].timesyncWaiters > 0,
                        !.sink.audioStreams = @ + 1]
        w2 == setDelayFromLocalNow(w1, now)
    IN [w2 EXCEPT !.peers[src].timedeltaListeners = @ + 1,
                  !.sink.sourceUpdateListeners = @ + 1,
                  !.sink.latencySyncIntervals = @ + 1,
                  !.sink.cleanStream = TRUE]

\* the closure _startSink stores in cleanStream
cleanStream(w) ==
    LET src == w.sink.pipedSource.peer
        Dec(n) == IF n > 0 THEN n - 1 ELSE 0
    IN [w EXCEPT !.peers[src].timedeltaListeners = Dec(@),
                 !.sink.sourceUpdateListeners = Dec(@),
                 !.sink.audioStreams = Dec(@),
                 !.sink.latencySyncIntervals = Dec(@)]

_stopSink(w) ==
    IF w.sink.cleanStream
    THEN [cleanStream(w) EXCEPT !.sink.cleanStream = FALSE]
    ELSE w

RECURSIVE timesyncStateUpdatedHandlers(_, _, _, _)
\* the listener waitForFirstTimeSync registers on 'timesyncStateUpdated'; the
\* promise it resolves resumes _startSink before any other handler runs
timesyncStateUpdatedHandlers(w, p, n, now) ==
    IF n = 0 THEN w
    ELSE timesyncStateUpdatedHandlers(startSinkResumed(w, now), p, n - 1, now)

\* every call of waitForFirstTimeSync on the peer has a listener of its own
timesyncStateUpdatedHandler(w, p, now) ==
    IF ~isTimeSynchronized(w, p)
    THEN timesyncStateUpdatedHandlers([w EXCEPT !.peers[p].timesyncWaiters = 0], p,
                                      w.peers[p].timesyncWaiters, now)
    ELSE w

\* _startSink up to its await; pipedSource is the source being started
_startSink(w, source, now) ==
    LET w1 == [w EXCEPT !.sink.pipedSource = source, !.sink.starting = TRUE]
    IN IF isTimeSynchronized(w1, source.peer)
       THEN startSinkResumed(w1, now)
       ELSE [w1 EXCEPT !.peers[source.peer].timesyncWaiters = @ + 1]

---------------------------------------------------------------------------
(* The constructor's listeners                                             *)

\* this.on('stateChange', ...)
stateChangeListener(w, p) ==
    LET w1 == IF w.peers[p].state # "connected"
              THEN SetField(w, p, "timedeltas", flush(w.peers[p].timedeltas))
              ELSE w
    IN IF w1.peers[p].state = "connected"
       THEN LET w2 == Did(w1, "manager", p, Message("newConnectedPeer"))
            IN IF ~isLocal(p)
               THEN [w2 EXCEPT
                       !.peers[p].initTimeouts = @ + TIMESYNC_INIT_REQUEST_COUNT,
                       !.observed[p].scheduled = @ + TIMESYNC_INIT_REQUEST_COUNT]
               ELSE w2
       ELSE w1

\* the listeners waitForConnected added, run after the constructor's: each
\* returns if the state is 'connected', else removes itself and resolves
RECURSIVE waitForConnectedListeners(_, _, _)
waitForConnectedListeners(w, p, n) ==
    IF n = 0 \/ w.peers[p].state = "connected" THEN w
    ELSE waitForConnectedListeners(
             Did([w EXCEPT !.peers[p].connectedWaiters = @ - 1], "waited", p,
                 Message("waitForConnected")),
             p, n - 1)

\* EventEmitter.emit of an event that carries no message
emit(w, p, event, now) ==
    LET w1 == Did(w, "emit", p, Message(event))
    IN IF event = "stateChange"
       THEN LET w2 == IF w1.peers[p].listeners THEN stateChangeListener(w1, p) ELSE w1
            IN waitForConnectedListeners(w2, p, w2.peers[p].connectedWaiters)
       ELSE IF event = "timedeltaUpdated"
       THEN IF w1.peers[p].timedeltaListeners > 0
            THEN handleTimedeltaUpdate(w1, now) ELSE w1
       ELSE IF event = "timesyncStateUpdated"
       THEN IF w1.peers[p].timesyncWaiters > 0
            THEN timesyncStateUpdatedHandler(w1, p, now) ELSE w1
       ELSE w1

\* Peer.waitForConnected: resolved at once on a 'connected' peer, else a
\* listener of stateChange is added
waitForConnected(w, p) ==
    IF w.peers[p].state = "connected"
    THEN Did(w, "waited", p, Message("waitForConnected"))
    ELSE [w EXCEPT !.peers[p].connectedWaiters = @ + 1]

\* the callback setState hands to setImmediate
stateChangeCallback(w, p, s, now) ==
    LET w1 == emit(w, p, "stateChange", now)
        w2 == Did(w1, "manager", p, Message("peerChange"))
    IN IF s = "connected"
       THEN Did(w2, "manager", p, Message("connectedPeer"))
       ELSE w2

_sendTimekeepRequest(w, p, now) ==
    IF isLocal(p) THEN w
    ELSE sendControllerMessage(w, p, [Message("timekeepRequest") EXCEPT !.sentAt = now])

\* onControllerMessage('timekeepRequest', ...)
timekeepRequestHandler(w, p, m, now) ==
    sendControllerMessage(w, p,
        [Message("timekeepResponse") EXCEPT !.sentAt = m.sentAt, !.respondedAt = now])

Abs(x) == IF x < 0 THEN 0 - x ELSE x

\* the timekeepResponse handler with the threshold compared by >= instead of >
timekeepResponseHandlerAtThreshold(w, p, m, now) ==
    LET roundtripTime == now - m.sentAt
        delta == InQuarterMs(m.respondedAt) - (InQuarterMs(m.sentAt) + 2 * roundtripTime)
        w1 == SetField(w, p, "timedeltas", push(w.peers[p].timedeltas, delta))
        realTimeDelta == median(w1.peers[p].timedeltas)
        w2 == IF /\ full(w1.peers[p].timedeltas, TIMESYNC_INIT_REQUEST_COUNT)
                 /\ Abs(realTimeDelta - w1.peers[p].timeDelta)
                        >= InQuarterMs(MS_DIFF_TO_UPDATE_TIME_DELTA)
              THEN emit(SetField(w1, p, "timeDelta", realTimeDelta), p,
                        "timedeltaUpdated", now)
              ELSE w1
    IN emit(w2, p, "timesyncStateUpdated", now)

\* a timekeepResponse handler that takes the whole round trip, not its half,
\* as the way to the peer
timekeepResponseHandlerWholeRoundtrip(w, p, m, now) ==
    LET roundtripTime == now - m.sentAt
        delta == InQuarterMs(m.respondedAt) - InQuarterMs(m.sentAt + roundtripTime)
        w1 == SetField(w, p, "timedeltas", push(w.peers[p].timedeltas, delta))
        realTimeDelta == median(w1.peers[p].timedeltas)
        w2 == IF /\ full(w1.peers[p].timedeltas, TIMESYNC_INIT_REQUEST_COUNT)
                 /\ Abs(realTimeDelta - w1.peers[p].timeDelta)
                        > InQuarterMs(MS_DIFF_TO_UPDATE_TIME_DELTA)
              THEN emit(SetField(w1, p, "timeDelta", realTimeDelta), p,
                        "timedeltaUpdated", now)
              ELSE w1
    IN emit(w2, p, "timesyncStateUpdated", now)

\* onControllerMessage('timekeepResponse', ...), in quarter milliseconds
timekeepResponseHandler(w, p, m, now) ==
    LET receivedAt == now
        roundtripTime == receivedAt - m.sentAt
        \* receivedByPeerAt = sentAt + roundtripTime / 2
        receivedByPeerAt == InQuarterMs(m.sentAt) + 2 * roundtripTime
        delta == InQuarterMs(m.respondedAt) - receivedByPeerAt
        w1 == SetField(w, p, "timedeltas", push(w.peers[p].timedeltas, delta))
        realTimeDelta == median(w1.peers[p].timedeltas)
        w2 == IF /\ full(w1.peers[p].timedeltas, TIMESYNC_INIT_REQUEST_COUNT)
                 /\ Abs(realTimeDelta - w1.peers[p].timeDelta)
                        > InQuarterMs(MS_DIFF_TO_UPDATE_TIME_DELTA)
              THEN emit(SetField(w1, p, "timeDelta", realTimeDelta), p,
                        "timedeltaUpdated", now)
              ELSE w1
    IN emit(w2, p, "timesyncStateUpdated", now)

NoPeer == "none"

\* PeersManager.getConnectedPeerByUuid: the peers it may return (NoPeer when none)
getConnectedPeerByUuid(w, uuid) ==
    LET found == {q \in w.registered :
                     w.peers[q].uuid = uuid /\ w.peers[q].state = "connected"}
    IN IF found = {} THEN {NoPeer} ELSE found

\* the peerInfo handler without the destroy of the previous instance
peerInfoHandlerKeepsIncumbent(w, p, m, existingPeer) ==
    IF existingPeer # NoPeer /\ w.peers[existingPeer].instanceUuid = m.instanceUuid
    THEN destroy(w, p, FALSE, FALSE)
    ELSE LET w2 == [w EXCEPT !.peers[p].instanceUuid = m.instanceUuid,
                             !.peers[p].uuid = m.peerUuid]
         IN IF w2.peers[p].state # "connected"
            THEN setState(w2, p, "connected")
            ELSE w2

\* onControllerMessage('peerInfo', ...); existingPeer is what the manager returned
peerInfoHandler(w, p, m, existingPeer) ==
    IF existingPeer # NoPeer /\ w.peers[existingPeer].instanceUuid = m.instanceUuid
    THEN destroy(w, p, FALSE, FALSE)
    ELSE LET w1 == IF existingPeer # NoPeer
                   THEN destroy(w, existingPeer, TRUE, FALSE)
                   ELSE w
             w2 == [w1 EXCEPT !.peers[p].instanceUuid = m.instanceUuid,
                              !.peers[p].uuid = m.peerUuid]
         IN IF w2.peers[p].state # "connected"
            THEN setState(w2, p, "connected")
            ELSE w2

\* rpc/rpc.ts rpcHandlers: the rpc types that have a handler
HandledRpcTypes == {"ping"}

RpcResponse(m, isError, body) ==
    [Message("rpc") EXCEPT !.isResponse = TRUE, !.isError = isError, !.body = body,
                           !.uuid = m.uuid, !.rpcType = m.rpcType]

\* the closure of sendRcp without its delete of the slot
rpcResponseHandlerKeepsSlot(w, p, m) ==
    IF m.isError
    THEN Did([w EXCEPT !.promises[m.uuid] =
                 [state |-> "rejected", value |-> "Error: " \o m.body]],
             "reject", p, m)
    ELSE Did([w EXCEPT !.promises[m.uuid] =
                 [state |-> "resolved", value |-> m.body]],
             "resolve", p, m)

\* the closure sendRcp stores in rpcResponseHandlers[uuid]
rpcResponseHandler(w, p, m) ==
    LET w1 == [w EXCEPT !.peers[p].rpcResponseHandlers = @ \ {m.uuid}]
    IN IF m.isError
       THEN Did([w1 EXCEPT !.promises[m.uuid] =
                    [state |-> "rejected", value |-> "Error: " \o m.body]],
                "reject", p, m)
       ELSE Did([w1 EXCEPT !.promises[m.uuid] =
                    [state |-> "resolved", value |-> m.body]],
                "resolve", p, m)

\* onControllerMessage('rpc', ...) up to its await
rpcHandler(w, p, m) ==
    IF m.isResponse
    THEN IF m.uuid \in w.peers[p].rpcResponseHandlers
         THEN rpcResponseHandler(w, p, m)
         ELSE w
    ELSE IF m.rpcType \in HandledRpcTypes
         THEN [w EXCEPT !.inflight = Append(@, [peer |-> p, m |-> m])]
         ELSE \* rpcHandlers[rpcType] is undefined: the call throws inside the try
              sendControllerMessage(w, p,
                  RpcResponse(m, TRUE, "TypeError: rpcHandlers[message.rpcType] is not a function"))

\* the rest of the rpc listener with a catch block that leaves isError out
rpcHandlerSettledNoError(w, i, threw, body) ==
    LET r == w.inflight[i]
        w1 == [w EXCEPT !.inflight =
                  SubSeq(@, 1, i - 1) \o SubSeq(@, i + 1, Len(@))]
    IN sendControllerMessage(w1, r.peer,
           RpcResponse(r.m, FALSE, IF threw THEN "Error: " \o body ELSE body))

\* the rest of the rpc listener once the handler's promise settled
rpcHandlerSettled(w, i, threw, body) ==
    LET r == w.inflight[i]
        w1 == [w EXCEPT !.inflight =
                  SubSeq(@, 1, i - 1) \o SubSeq(@, i + 1, Len(@))]
    IN IF threw
       THEN sendControllerMessage(w1, r.peer, RpcResponse(r.m, TRUE, "Error: " \o body))
       ELSE sendControllerMessage(w1, r.peer, RpcResponse(r.m, FALSE, body))

\* the listeners onControllerMessage registered, by message type
controllerMessageListeners(w, p, m, now, existingPeer) ==
    IF m.type = "timekeepRequest" THEN timekeepRequestHandler(w, p, m, now)
    ELSE IF m.type = "timekeepResponse" THEN timekeepResponseHandler(w, p, m, now)
    ELSE IF m.type = "peerInfo" THEN peerInfoHandler(w, p, m, existingPeer)
    ELSE IF m.type = "rpc" THEN rpcHandler(w, p, m)
    ELSE w

_onReceivedMessage(w, p, m, now, existingPeer) ==
    LET cleared == IF w.peers[p].missingPeerResponseTimeout > 0
                   THEN 0
                   ELSE w.peers[p].missingPeerResponseTimeout
        armed == IF ~isLocal(p) THEN cleared + 1 ELSE cleared
        w1 == SetField(w, p, "missingPeerResponseTimeout", armed)
        w2 == Did(w1, "emit", p, [m EXCEPT !.type = "controllerMessage:" \o m.type])
        w3 == IF w2.peers[p].listeners
              THEN controllerMessageListeners(w2, p, m, now, existingPeer)
              ELSE w2
    IN Did(w3, "manager", p, [m EXCEPT !.type = "controllerMessage:" \o m.type])

handleNoResponseTimeout(w, p) == destroy(w, p, TRUE, TRUE)

\* sendRcp with the uuid uuidv4() returned
sendRcp(w, p, uuid, type, body) ==
    LET w1 == [w EXCEPT !.peers[p].rpcResponseHandlers = @ \cup {uuid},
                        !.promises[uuid] = [state |-> "pending", value |-> ""]]
    IN sendControllerMessage(w1, p,
           [Message("rpc") EXCEPT !.rpcType = type, !.isResponse = FALSE,
                                  !.body = body, !.uuid = uuid])

---------------------------------------------------------------------------
(* AirplayUdpSocket: the RTP header codec                                  *)

\* JavaScript values of the header fields, tagged with their type
Num(n) == [t |-> "number", n |-> n, s |-> ""]
Str(s) == [t |-> "string", n |-> 0, s |-> s]
Bool(b) == [t |-> "boolean", n |-> IF b THEN 1 ELSE 0, s |-> ""]
Undefined == [t |-> "undefined", n |-> 0, s |-> ""]

\* truthiness, as the conditional operator takes it
Truthy(v) ==
    IF v.t = "string" THEN v.s # "" ELSE IF v.t = "undefined" THEN FALSE ELSE v.n # 0

\* the int32 a value becomes as an operand of | : Number() of the name of a
\* payload type, or of undefined, is NaN, and NaN becomes 0
ToInt32(v) == IF v.t \in {"number", "boolean"} THEN v.n ELSE 0

RECURSIVE BitAnd(_, _)
BitAnd(x, y) ==
    IF x = 0 \/ y = 0 THEN 0
    ELSE (x % 2) * (y % 2) + 2 * BitAnd(x \div 2, y \div 2)

RECURSIVE BitOr(_, _)
BitOr(x, y) ==
    IF x = 0 THEN y
    ELSE IF y = 0 THEN x
    ELSE (IF x % 2 = 1 \/ y % 2 = 1 THEN 1 ELSE 0) + 2 * BitOr(x \div 2, y \div 2)

\* DataView.setUint8, setUint16 (big-endian), getUint8, getUint16 at offset i
\* (offsets count from 0, the sequence of bytes from 1)
setUint8(data, i, v) == [data EXCEPT ![i + 1] = v % 256]
setUint16(data, i, v) ==
    [data EXCEPT ![i + 1] = (v \div 256) % 256, ![i + 2] = v % 256]
getUint8(data, i) == data[i + 1]
getUint16(data, i) == data[i + 1] * 256 + data[i + 2]

\* RTP_PAYLOAD_TYPES[String(n)]: the reverse mapping of the numeric enum gives
\* the name of the member, and undefined for a number that is no member
PayloadTypeName(n) ==
    IF \E k \in DOMAIN RTP_PAYLOAD_TYPES : RTP_PAYLOAD_TYPES[k] = n
    THEN Str(CHOOSE k \in DOMAIN RTP_PAYLOAD_TYPES : RTP_PAYLOAD_TYPES[k] = n)
    ELSE Undefined

parseRtpHeader(message) ==
    LET a == getUint8(message, 0)
        b == getUint8(message, 1)
        seqnum == getUint16(message, 2)
    IN [extension |-> Bool(BitAnd(a, RTP_HEADER_A_EXTENSION) # 0),
        source |-> Num(BitAnd(a, RTP_HEADER_A_SOURCE)),
        payloadType |-> PayloadTypeName(BitAnd(b, RTP_HEADER_B_PAYLOAD_TYPE)),
        marker |-> Bool(BitAnd(b, RTP_HEADER_B_MARKER) # 0),
        seqnum |-> Num(seqnum)]

getRtpHeader(header) ==
    LET data == [i \in 1..RTP_HEADER_LENGTH |-> 0]
        a == BitOr(IF Truthy(header.extension) THEN RTP_HEADER_A_EXTENSION ELSE 0,
                   ToInt32(header.source))
        b == BitOr(IF Truthy(header.marker) THEN RTP_HEADER_B_MARKER ELSE 0,
                   ToInt32(header.payloadType))
    IN setUint16(setUint8(setUint8(data, 0, a), 1, b), 2, ToInt32(header.seqnum))

NoHeader ==
    [extension |-> Undefined, source |-> Undefined, payloadType |-> Undefined,
     marker |-> Undefined, seqnum |-> Undefined]
NoBytes == [i \in 1..RTP_HEADER_LENGTH |-> 0]

---------------------------------------------------------------------------
(* AirplayUdpSocket: NTP timestamps                                        *)

\* A time in milliseconds is kept as its whole seconds q, a number of
\* TimeBytes base-256 digits with the lowest first, and its milliseconds r
\* past the second, so that times past 2^31 ms and seconds past 2^32 can be
\* written.  The times used have an r whose fraction of a second is a
\* multiple of 1/4, which doubles and the 32-bit fraction hold exactly.
TimeBytes == 8

RECURSIVE Digits(_, _)
Digits(n, k) == IF k = 0 THEN <<>> ELSE <<n % 256>> \o Digits(n \div 256, k - 1)

\* digits * m + carry, kept to the width of digits
RECURSIVE MulAdd(_, _, _)
MulAdd(digits, m, carry) ==
    IF digits = <<>> THEN <<>>
    ELSE LET v == Head(digits) * m + carry
         IN <<v % 256>> \o MulAdd(Tail(digits), m, v \div 256)

TimeOf(seconds, millis) == [q |-> Digits(seconds, TimeBytes), r |-> millis]

\* time * 1000
Times1000(time) == [q |-> MulAdd(MulAdd(time.q, 1000, 0), 1, time.r), r |-> 0]

\* the base-256 digits, highest first, of floor(r * 2^32 / 1000)
RECURSIVE FractionBytes(_, _)
FractionBytes(r, k) ==
    IF k = 0 THEN <<>>
    ELSE <<(r * 256) \div 1000>> \o FractionBytes((r * 256) % 1000, k - 1)

\* getNtpTimestamp: setUint32 keeps the low 32 bits of the seconds
getNtpTimestamp(time) ==
    <<time.q[4], time.q[3], time.q[2], time.q[1]>> \o FractionBytes(time.r, 4)

\* parseNtpTimestamp: (integer + fraction / 2^32) * 1000
parseNtpTimestamp(ntpTime) ==
    LET integer == <<ntpTime[4], ntpTime[3], ntpTime[2], ntpTime[1]>>
        fraction == <<ntpTime[8], ntpTime[7], ntpTime[6], ntpTime[5], 0, 0>>
        scaled == MulAdd(fraction, 1000, 0)
    IN [q |-> integer \o Digits(0, TimeBytes - 4), r |-> scaled[5] + 256 * scaled[6]]

\* ArrayBuffer.slice(begin): the bytes from offset begin on
Slice(message, begin) == SubSeq(message, begin + 1, Len(message))

---------------------------------------------------------------------------
(* AirplayUdpSocket: the socket, its parsers and its senders               *)

\* udp holds the two ports, the once-listeners of bindToPort (each by the
\* number of the attempt that added it), the state of the bindToPort call,
\* and what the last run of the message handler or of a sender did: the
\* datagrams passed to socket.send, the events emitted, whether it threw.
CLIENT_HOST == "speaker"
NoPort == 0 - 1
FRAMES_PER_PACKET == 352

NoTime == TimeOf(0, 0)
NoParsed ==
    [kind |-> "undefined", referenceTime |-> NoTime, receivedTime |-> NoTime,
     sendTime |-> NoTime, missedSeq |-> 0, missedCount |-> 0]

setUint32(data, i, v) ==
    [k \in 1..Len(data) |->
        IF k \in (i + 1)..(i + 4) THEN Digits(v, 4)[i + 5 - k] ELSE data[k]]

\* a read of n bytes at offset i throws a RangeError past the end of the
\* buffer; a datagram arrives in a buffer of its own length
OutOfBounds(message, i, n) == i + n > Len(message)

\* parseRtpHeader reads the bytes 0, 1 and 2-3
parseRtpHeaderThrows(message) == OutOfBounds(message, 0, RTP_HEADER_LENGTH)

Ran(w, what, message, now) ==
    [w EXCEPT !.udp = [@ EXCEPT !.ran = what, !.message = message, !.now = now,
                                !.header = NoHeader, !.parsed = NoParsed,
                                !.sent = <<>>, !.emitted = <<>>, !.threw = FALSE]]

socketSend(w, data) ==
    [w EXCEPT !.udp.sent =
        Append(@, [data |-> data, port |-> w.udp.clientPort, host |-> CLIENT_HOST])]

socketEmit(w, event, parsedMessage, header) ==
    [w EXCEPT !.udp.emitted =
        Append(@, [event |-> event, message |-> parsedMessage, header |-> header])]

\* packetParsers.timingRequest: three NTP timestamps from header+4 on
timingRequestParserThrows(message) ==
    \E k \in 0..2 :
        OutOfBounds(Slice(message, RTP_HEADER_LENGTH + 4 + k * RTP_NTP_TIMESTAMP_LENGTH),
                    0, RTP_NTP_TIMESTAMP_LENGTH)
timingRequestParser(message) ==
    [NoParsed EXCEPT
        !.kind = "timingRequest",
        !.referenceTime = parseNtpTimestamp(Slice(message, RTP_HEADER_LENGTH + 4)),
        !.receivedTime = parseNtpTimestamp(
            Slice(message, RTP_HEADER_LENGTH + 4 + RTP_NTP_TIMESTAMP_LENGTH)),
        !.sendTime = parseNtpTimestamp(
            Slice(message, RTP_HEADER_LENGTH + 4 + RTP_NTP_TIMESTAMP_LENGTH
                               + RTP_NTP_TIMESTAMP_LENGTH))]

\* packetParsers.rangeResend: readUInt16BE at header and header+2
rangeResendParserThrows(message) ==
    \/ OutOfBounds(message, RTP_HEADER_LENGTH, 2)
    \/ OutOfBounds(message, RTP_HEADER_LENGTH + 2, 2)
rangeResendParser(message) ==
    [NoParsed EXCEPT !.kind = "rangeResend",
                     !.missedSeq = getUint16(message, RTP_HEADER_LENGTH),
                     !.missedCount = getUint16(message, RTP_HEADER_LENGTH + 2)]

\* packetParsers[header.payloadType]?.(message)
HasParser(payloadType) == payloadType \in {Str("timingRequest"), Str("rangeResend")}
packetParsersThrows(payloadType, message) ==
    \/ payloadType = Str("timingRequest") /\ timingRequestParserThrows(message)
    \/ payloadType = Str("rangeResend") /\ rangeResendParserThrows(message)
packetParsers(payloadType, message) ==
    IF payloadType = Str("timingRequest") THEN timingRequestParser(message)
    ELSE IF payloadType = Str("rangeResend") THEN rangeResendParser(message)
    ELSE NoParsed

\* packetSender.timingResponse without its guard on clientPort
timingResponseUnguarded(w, originalPacket, originalPacketHeader, currentTime) ==
    LET header == getRtpHeader([originalPacketHeader EXCEPT
                                   !.payloadType = Num(RTP_PAYLOAD_TYPES.timingResponse)])
    IN socketSend(w, header \o <<0, 0, 0, 0>>
                        \o getNtpTimestamp(Times1000(originalPacket.sendTime))
                        \o getNtpTimestamp(currentTime)
                        \o getNtpTimestamp(currentTime))

timingResponse(w, originalPacket, originalPacketHeader, currentTime) ==
    IF w.udp.clientPort = NoPort THEN w
    ELSE timingResponseUnguarded(w, originalPacket, originalPacketHeader, currentTime)

\* packetSender.audioData
audioData(w, alacData, timestamp, firstPacketInStream, clientSessionId) ==
    IF w.udp.clientPort = NoPort THEN w
    ELSE LET data == [k \in 1..(RTP_HEADER_LENGTH + 4 + 4 + Len(alacData)) |->
                         IF k > 12 THEN alacData[k - 12] ELSE 0]
             d0 == setUint8(data, 0, 128)
             d1 == setUint8(d0, 1, IF firstPacketInStream THEN 224 ELSE 96)
             d2 == setUint16(d1, 2, timestamp \div FRAMES_PER_PACKET)
             d3 == setUint32(d2, 4, timestamp)
         IN socketSend(w, setUint32(d3, 8, clientSessionId))

\* packetSender.sync
Max(a, b) == IF a > b THEN a ELSE b
sync(w, nextAudioChunkTimestamp, currentTime, latency, isFirst) ==
    IF w.udp.clientPort = NoPort THEN w
    ELSE LET header == getRtpHeader([payloadType |-> Num(RTP_PAYLOAD_TYPES.sync),
                                     marker |-> Bool(TRUE), seqnum |-> Num(7),
                                     extension |-> Bool(isFirst), source |-> Num(0)])
             data == header \o [k \in 1..16 |-> 0]
             d1 == setUint32(data, RTP_HEADER_LENGTH, nextAudioChunkTimestamp - latency)
             d2 == [k \in 1..Len(d1) |->
                       IF k \in 9..16 THEN getNtpTimestamp(currentTime)[k - 8] ELSE d1[k]]
         IN socketSend(w, setUint32(d2, RTP_HEADER_LENGTH + 12, nextAudioChunkTimestamp))

\* the listener of 'timingRequest' answers with a timingResponse
timingRequestListener(w, parsedMessage, header, currentTime) ==
    timingResponse(w, parsedMessage, header, currentTime)

\* the socket's 'message' handler; an exception leaves it at the throwing call
socketMessageHandler(w, message, currentTime) ==
    LET w1 == Ran(w, "message", message, currentTime)
    IN IF parseRtpHeaderThrows(message) THEN [w1 EXCEPT !.udp.threw = TRUE]
       ELSE LET header == parseRtpHeader(message)
                w2 == [w1 EXCEPT !.udp.header = header]
            IN IF packetParsersThrows(header.payloadType, message)
               THEN [w2 EXCEPT !.udp.threw = TRUE]
               ELSE LET parsedMessage == packetParsers(header.payloadType, message)
                        w3 == [w2 EXCEPT !.udp.parsed = parsedMessage]
                        w4 == socketEmit(w3, header.payloadType, parsedMessage, header)
                        w5 == IF header.payloadType = Str("timingRequest")
                              THEN timingRequestListener(w4, parsedMessage, header,
                                                         currentTime)
                              ELSE w4
                    IN socketEmit(w5, Str("message"), parsedMessage, header)

\* bindToPort up to its await: a new promise whose two once-listeners carry
\* the number of the attempt, then socket.bind(serverPort)
bindAttempt(w, attempt) ==
    [w EXCEPT !.udp = [@ EXCEPT !.bind.stage = "pending", !.bind.attempt = attempt,
                                !.bind.tried = Append(@, w.udp.serverPort),
                                !.listeners.error = @ \cup {attempt},
                                !.listeners.listening = @ \cup {attempt}]]

bindToPort(w, basePort, occupied) ==
    bindAttempt([w EXCEPT !.udp = [@ EXCEPT !.serverPort = basePort,
                                            !.bind.occupied = occupied,
                                            !.bind.tried = <<>>]], 1)

\* the socket emits 'listening': every listeningHandler registered runs once,
\* removes the errorHandler of its attempt and resolves the promise of its
\* attempt; bindToPort returns when that is the promise it awaits
socketListening(w) ==
    LET fired == w.udp.listeners.listening
    IN [w EXCEPT !.udp = [@ EXCEPT
           !.listeners.listening = {},
           !.listeners.error = @ \ fired,
           !.bind.stage = IF w.udp.bind.attempt \in fired THEN "bound" ELSE @]]

\* an errorHandler that leaves the listeningHandler of its attempt registered
socketErrorKeepsListening(w, code) ==
    LET fired == w.udp.listeners.error
        w1 == [w EXCEPT !.udp.listeners.error = {}]
    IN IF w.udp.bind.attempt \notin fired THEN w1
       ELSE IF code # "EADDRINUSE"
            THEN [w1 EXCEPT !.udp.bind.stage = "failed", !.udp.bind.error = code]
            ELSE bindAttempt([w1 EXCEPT !.udp.serverPort = @ + 1],
                             w.udp.bind.attempt + 1)

\* the socket emits 'error': every errorHandler registered runs once, removes
\* the listeningHandler of its attempt and rejects the promise of its attempt;
\* bindToPort throws unless the code is EADDRINUSE, and on EADDRINUSE goes on
\* with the next port
socketError(w, code) ==
    socketErrorKeepsListening(
        [w EXCEPT !.udp.listeners.listening = @ \ w.udp.listeners.error], code)

---------------------------------------------------------------------------
(* Rendezvous relay: the two routes and the list store                     *)

\* relay.requests holds each HTTP request (where it stands, its status, how
\* many replies of its pipeline are in, the reply of its lrange), relay.conn
\* the commands written to the store's connection and not yet executed, and
\* relay.lists the list under each key with whether an expiry is set on it.
\* The service has one connection to the store, the exported redis; the
\* store executes the commands of a connection in the order it was written.
PostRequests == {"m1", "m2"}
GetRequests == {"g1", "g2"}
Requests == PostRequests \cup GetRequests
ConversationIds == {"5", "lobby"}

\* conversationId < 64 compares a string with a number: the string is
\* converted to a number, and a comparison with NaN is false
StringToNumber(id) == IF id = "5" THEN 5 ELSE NaN
LessThan(a, b) == a # NaN /\ b # NaN /\ a < b

Command(op, key, request, message) ==
    [op |-> op, key |-> key, request |-> request, message |-> message]

\* redis.pipeline()....exec(): the commands are written to the connection in
\* one piece
pipelineExec(w, commands) == [w EXCEPT !.relay.conn = @ \o commands]

Respond(w, r, status) ==
    [w EXCEPT !.relay.requests[r] = [@ EXCEPT !.stage = "done", !.status = status]]

\* router.post up to its await; the message of request r is its name
postMessages(w, r, conversationId) ==
    IF ~LessThan(StringToNumber(conversationId), 64) THEN Respond(w, r, 400)
    ELSE pipelineExec(
            [w EXCEPT !.relay.requests[r] = [@ EXCEPT !.stage = "awaiting",
                                                      !.id = conversationId]],
            <<Command("lpush", conversationId, r, r),
              Command("expire", conversationId, r, "")>>)

\* a GET whose pipeline deletes the list before it reads it
getMessagesDelFirst(w, r, conversationId) ==
    IF ~LessThan(StringToNumber(conversationId), 64) THEN Respond(w, r, 400)
    ELSE pipelineExec(
            [w EXCEPT !.relay.requests[r] = [@ EXCEPT !.stage = "awaiting",
                                                      !.id = conversationId]],
            <<Command("del", conversationId, r, ""),
              Command("lrange", conversationId, r, "")>>)

\* router.get up to its await
getMessages(w, r, conversationId) ==
    IF ~LessThan(StringToNumber(conversationId), 64) THEN Respond(w, r, 400)
    ELSE pipelineExec(
            [w EXCEPT !.relay.requests[r] = [@ EXCEPT !.stage = "awaiting",
                                                      !.id = conversationId]],
            <<Command("lrange", conversationId, r, ""),
              Command("del", conversationId, r, "")>>)

\* the store executes the next command of the connection and replies
redisExecute(w) ==
    LET c == Head(w.relay.conn)
        list == w.relay.lists[c.key].items
        w1 == [w EXCEPT !.relay.conn = Tail(@),
                        !.relay.requests[c.request].replies = @ + 1]
    IN CASE c.op = "lpush" ->
                [w1 EXCEPT !.relay.lists[c.key].items = <<c.message>> \o list]
         [] c.op = "expire" ->
                [w1 EXCEPT !.relay.lists[c.key].expires = list # <<>>]
         [] c.op = "lrange" ->
                [w1 EXCEPT !.relay.requests[c.request].messages = list]
         [] c.op = "del" ->
                [w1 EXCEPT !.relay.lists[c.key] = [items |-> <<>>, expires |-> FALSE]]

\* the awaited exec() resolves: POST answers 204, GET answers with the reply
\* of its lrange
routeResumes(w, r) ==
    Respond(w, r, IF r \in PostRequests THEN 204 ELSE 200)

---------------------------------------------------------------------------
(* The state after the peers are constructed.  The local peer connects in  *)
(* its constructor (setState('connected')), so its stateChange is queued.  *)

InitPeer(p) ==
    [state |-> IF isLocal(p) THEN "connected" ELSE "connecting",
     uuid |-> "u" \o p,
     instanceUuid |-> "i" \o p,
     timeDelta |-> 0,
     timedeltas |-> <<>>,
     rpcResponseHandlers |-> {},
     timekeepInterval |-> TRUE,
     missingPeerResponseTimeout |-> 0,
     initTimeouts |-> 0,
     listeners |-> TRUE,
     timesyncWaiters |-> 0,
     connectedWaiters |-> 0,
     timedeltaListeners |-> 0]

NoSource == [peer |-> LocalPeer, startedAt |-> 0, latency |-> 0]

InitSink ==
    [pipedSource |-> NoSource, starting |-> FALSE, cleanStream |-> FALSE,
     audioStreams |-> 0, latencySyncIntervals |-> 0, sourceUpdateListeners |-> 0,
     delayFromLocalNow |-> 0]


Init ==
    /\ peers = [p \in Peers |-> InitPeer(p)]
    /\ immediates = << <<LocalPeer, "connected">> >>
    /\ registered = Peers
    /\ promises = [u \in RpcUuids |-> [state |-> "unused", value |-> ""]]
    /\ inflight = <<>>
    /\ observed = [p \in Peers |->
                     [entered |-> IF isLocal(p) THEN 1 ELSE 0, scheduled |-> 0]]
    /\ sink = InitSink
    /\ rtp = [stage |-> "idle", header |-> NoHeader, bytes |-> NoBytes,
              parsed |-> NoHeader]
    /\ udp = [serverPort |-> NoPort, clientPort |-> NoPort,
              listeners |-> [error |-> {}, listening |-> {}],
              bind |-> [stage |-> "idle", attempt |-> 0, tried |-> <<>>,
                        occupied |-> {}, error |-> ""],
              ran |-> "none", message |-> <<>>, now |-> NoTime,
              header |-> NoHeader, parsed |-> NoParsed,
              sent |-> <<>>, emitted |-> <<>>, threw |-> FALSE]
    /\ relay = [requests |-> [r \in Requests |->
                                [stage |-> "new", id |-> "", status |-> 0, replies |-> 0,
                                 messages |-> <<>>]],
                conn |-> <<>>,
                lists |-> [id \in ConversationIds |-> [items |-> <<>>, expires |-> FALSE]]]
    /\ effects = <<>>

---------------------------------------------------------------------------
(* Inputs                                                                  *)

Nows == {40}
SentAts == {0}
\* with sentAt 0 and now 40 these give time-delta samples of 5 ms and 17 ms
RespondedAts == {25, 37}

\* probes over a link of one-way delay d to a peer whose clock is D ahead:
\* the request leaves at sentAt, the peer answers at sentAt + d on the local
\* clock, which is sentAt + d + D on its own, and the answer arrives at
\* sentAt + 2d
ProbeSentAts == {0, 10}
Delays == {20, 7}
Offsets == {137, 2}
ProbeResponse(sentAt, d, D) ==
    [Message("timekeepResponse") EXCEPT !.sentAt = sentAt, !.respondedAt = sentAt + d + D]

PeerInfos ==
    {[Message("peerInfo") EXCEPT !.peerUuid = u, !.instanceUuid = i] :
        u \in PeerUuids, i \in InstanceUuids}

TimekeepResponses ==
    {[Message("timekeepResponse") EXCEPT !.sentAt = s, !.respondedAt = r] :
        s \in SentAts, r \in RespondedAts}

\* the responses of a peer whose clock and link are steady
SteadyResponses == {m \in TimekeepResponses : m.respondedAt = 37}

RpcResponses ==
    {[Message("rpc") EXCEPT !.isResponse = TRUE, !.uuid = u, !.isError = e,
                            !.body = b, !.rpcType = "ping"] :
        u \in RpcUuids, e \in BOOLEAN, b \in Bodies}

RpcRequests ==
    {[Message("rpc") EXCEPT !.uuid = u, !.rpcType = t, !.body = b] :
        u \in RequestUuids, t \in RpcTypes, b \in Bodies}

Latencies == {50, 80}

\* headers as the packet senders build them: flags as booleans, the payload
\* type as a member of the numeric enum
Sources4Bit == 0..RTP_HEADER_A_SOURCE
SeqNums == {0, 1, 255, 256, 65535}
Headers ==
    {[extension |-> Bool(e), source |-> Num(src), payloadType |-> Num(RTP_PAYLOAD_TYPES[k]),
      marker |-> Bool(mk), seqnum |-> Num(sq)] :
        e \in BOOLEAN, src \in Sources4Bit, k \in DOMAIN RTP_PAYLOAD_TYPES,
        mk \in BOOLEAN, sq \in SeqNums}
Sources ==
    {[peer |-> p, startedAt |-> 1000, latency |-> 50] : p \in {LocalPeer, "A"}}

\* the socket: ports, times in ms (1 700 000 000 000 and 2 500 as send times,
\* 5 000 and 5 250 as local times) and datagrams
BasePorts == {5000, 7000}
OccupiedSets(basePort) == SUBSET {basePort, basePort + 1}
ErrorCodes == {"EADDRINUSE", "EACCES"}
ClientPorts == {NoPort, 6001, 6002}
SendTimes == {TimeOf(1700000000, 0), TimeOf(2, 500), NoTime}
CurrentTimes == {TimeOf(5, 0), TimeOf(5, 250)}
RequestHeaders ==
    {[extension |-> Bool(FALSE), source |-> Num(0),
      payloadType |-> Num(RTP_PAYLOAD_TYPES.timingRequest),
      marker |-> Bool(mk), seqnum |-> Num(sq)] : mk \in BOOLEAN, sq \in {0, 7, 65535}}
TimingRequests ==
    {getRtpHeader(h) \o <<0, 0, 0, 0>> \o getNtpTimestamp(NoTime)
        \o getNtpTimestamp(NoTime) \o getNtpTimestamp(s) :
            h \in RequestHeaders, s \in SendTimes}
RangeResends == {<<128, RTP_PAYLOAD_TYPES.rangeResend, 0, 1, 0, 9, 0, 2>>}
\* datagrams with a payload type outside the enum, or cut short
UnknownTypes == {<<128, 0, 0, 1, 0, 9, 0, 2>>, <<128, 127, 0, 1>>}
CutShort ==
    {SubSeq(d, 1, n) : d \in {<<128, RTP_PAYLOAD_TYPES.timingRequest, 0, 1>>
                                  \o [k \in 1..28 |-> 0]},
                       n \in {0, 1, 3, 4, 31}}
      \cup {<<128, RTP_PAYLOAD_TYPES.rangeResend, 0, 1, 0, 9>>}
Datagrams == TimingRequests \cup RangeResends \cup UnknownTypes \cup CutShort
AlacData == {<<>>, <<1, 2>>}
Timestamps == {0, 351, 352, 70400}

---------------------------------------------------------------------------
(* Actions: one per call from outside, message, timer or queued callback   *)

\* a further call, message or timer is handled before the queued callbacks run
TickRoom == Len(immediates) < MaxQueued

SetState(p, s) ==
    /\ TickRoom
    /\ s = "connecting" => observed[p].entered < MaxEntered
    /\ Commit(setState(World, p, s))

Destroy(p, advertiseDestroy, canTryReconnect) ==
    /\ TickRoom
    /\ p \in Remote
    /\ Commit(destroy(World, p, advertiseDestroy, canTryReconnect))

RunImmediate ==
    /\ immediates # <<>>
    /\ \E now \in Nows :
         LET cb == Head(immediates)
         IN Commit(stateChangeCallback([World EXCEPT !.immediates = Tail(@)],
                                       cb[1], cb[2], now))

\* a peerInfo message arrives and the manager's lookup returns e
DeliverPeerInfoWith(p, m, e) ==
    /\ TickRoom
    /\ e \in getConnectedPeerByUuid(World, m.peerUuid)
    /\ \E now \in Nows : Commit(_onReceivedMessage(World, p, m, now, e))

DeliverPeerInfo(p, m) ==
    \E e \in Peers \cup {NoPeer} : DeliverPeerInfoWith(p, m, e)

DeliverTimekeepRequest(p) ==
    /\ TickRoom
    /\ p \in Remote
    /\ \E now \in Nows, s \in SentAts :
        Commit(_onReceivedMessage(World, p,
                   [Message("timekeepRequest") EXCEPT !.sentAt = s], now, NoPeer))

\* how often consecutive samples of a ring differ
Jumps(ring) == Cardinality({i \in 1..Len(ring) - 1 : ring[i] # ring[i + 1]})

DeliverTimekeepResponse(p, m) ==
    /\ TickRoom
    /\ Len(peers[p].timedeltas) < MaxSamples
    /\ \E now \in Nows :
         LET w == _onReceivedMessage(World, p, m, now, NoPeer)
         IN /\ Jumps(w.peers[p].timedeltas) <= MaxJumps
            /\ Commit(w)

\* a probe comes back over the symmetric link
ProbeRoundTrip(p, sentAt, d, D) ==
    /\ TickRoom
    /\ Len(peers[p].timedeltas) < MaxSamples
    /\ LET w == _onReceivedMessage(World, p, ProbeResponse(sentAt, d, D), sentAt + 2 * d,
                                   NoPeer)
       IN /\ Jumps(w.peers[p].timedeltas) <= MaxJumps
          /\ Commit(w)

WaitForConnected(p) ==
    /\ TickRoom
    /\ peers[p].connectedWaiters < MaxWaiting
    /\ Commit(waitForConnected(World, p))

\* a message of a type the Peer class registers no listener for
DeliverOther(p) ==
    /\ TickRoom
    /\ p \in Peers
    /\ \E now \in Nows :
        Commit(_onReceivedMessage(World, p, Message("disconnect"), now, NoPeer))

DeliverRpcResponse(p, m) ==
    /\ TickRoom
    /\ m \in RpcResponses
    /\ \E now \in Nows : Commit(_onReceivedMessage(World, p, m, now, NoPeer))

DeliverRpcRequest(p, m) ==
    /\ TickRoom
    /\ Len(inflight) < MaxInFlight
    /\ \E now \in Nows : Commit(_onReceivedMessage(World, p, m, now, NoPeer))

RpcHandlerSettles(i, threw, body) ==
    /\ TickRoom
    /\ i \in DOMAIN inflight
    /\ Commit(rpcHandlerSettled(World, i, threw, body))

SendRcp(p, body) ==
    /\ TickRoom
    /\ \E u \in RpcUuids : promises[u].state = "unused"
    /\ LET uuid == CHOOSE u \in RpcUuids :
                      /\ promises[u].state = "unused"
                      /\ \A v \in RpcUuids : promises[v].state = "unused" => u <= v
       IN Commit(sendRcp(World, p, uuid, "ping", body))

NoResponseTimeout(p) ==
    /\ TickRoom
    /\ peers[p].missingPeerResponseTimeout > 0
    /\ Commit(handleNoResponseTimeout(
           SetField(World, p, "missingPeerResponseTimeout",
                    peers[p].missingPeerResponseTimeout - 1), p))

TimekeepIntervalTick(p) ==
    /\ TickRoom
    /\ peers[p].timekeepInterval
    /\ \E now \in Nows : Commit(_sendTimekeepRequest(World, p, now))

InitRequestTimeout(p) ==
    /\ TickRoom
    /\ peers[p].initTimeouts > 0
    /\ \E now \in Nows :
           Commit(_sendTimekeepRequest(
               SetField(World, p, "initTimeouts", peers[p].initTimeouts - 1), p, now))

\* the sink orchestration starts a sink that is neither starting nor started
StartSink(source) ==
    /\ TickRoom
    /\ ~sink.starting
    /\ ~sink.cleanStream
    /\ \E now \in Nows : Commit(_startSink(World, source, now))

StopSink ==
    /\ TickRoom
    /\ sink.pipedSource # NoSource
    /\ Commit(_stopSink(World))

\* the sink is piped anew in one tick: _stopSink, then _startSink on the source
RestartSink(source) ==
    /\ TickRoom
    /\ sink.pipedSource # NoSource
    /\ sink.audioStreams + peers[source.peer].timesyncWaiters < MaxStarts
    /\ \E now \in Nows : Commit(_startSink(_stopSink(World), source, now))

LatencySyncIntervalTick ==
    /\ TickRoom
    /\ sink.latencySyncIntervals > 0
    /\ \E now \in Nows : Commit(setDelayFromLocalNow(World, now))

\* the source's latency changes and it emits 'update'
SourceUpdate(latency) ==
    /\ TickRoom
    /\ sink.pipedSource # NoSource
    /\ \E now \in Nows :
         LET w1 == Did([World EXCEPT !.sink.pipedSource.latency = latency],
                       "emit", sink.pipedSource.peer, Message("update"))
         IN Commit(IF w1.sink.sourceUpdateListeners > 0
                   THEN handleTimedeltaUpdate(w1, now)
                   ELSE w1)

\* a packet sender encodes a header
GetRtpHeader(header) ==
    /\ rtp.stage = "idle"
    /\ Commit([World EXCEPT !.rtp = [@ EXCEPT !.stage = "encoded", !.header = header,
                                              !.bytes = getRtpHeader(header)]])

\* the 4 bytes arrive at a socket and its message handler parses them
ParseRtpHeader ==
    /\ rtp.stage = "encoded"
    /\ Commit([World EXCEPT !.rtp = [@ EXCEPT !.stage = "parsed",
                                              !.parsed = parseRtpHeader(rtp.bytes)]])

\* the session layer records the port of the client
SetClientPort(port) ==
    /\ port # udp.clientPort
    /\ Commit([Ran(World, "setClientPort", <<>>, NoTime) EXCEPT !.udp.clientPort = port])

\* a datagram arrives at the socket at local time currentTime
ReceiveDatagram(message, currentTime) ==
    Commit(socketMessageHandler(World, message, currentTime))

SendAudioData(alacData, timestamp, firstPacketInStream, clientSessionId) ==
    Commit(audioData(Ran(World, "audioData", <<>>, NoTime), alacData, timestamp,
                     firstPacketInStream, clientSessionId))

SendSync(nextAudioChunkTimestamp, currentTime, latency, isFirst) ==
    Commit(sync(Ran(World, "sync", <<>>, currentTime), nextAudioChunkTimestamp,
                currentTime, latency, isFirst))

BindToPort(basePort, occupied) ==
    /\ udp.bind.stage = "idle"
    /\ Commit(bindToPort(World, basePort, occupied))

\* the bind of a free port succeeds
SocketListening ==
    /\ udp.bind.stage = "pending"
    /\ udp.serverPort \notin udp.bind.occupied
    /\ Commit(socketListening(World))

\* the bind fails: with EADDRINUSE on an occupied port, with another code on a
\* free one
SocketError(code) ==
    /\ udp.bind.stage = "pending"
    /\ code = "EADDRINUSE" <=> udp.serverPort \in udp.bind.occupied
    /\ Commit(socketError(World, code))

\* a POST request arrives and its route runs up to the await
PostMessages(r, conversationId) ==
    /\ relay.requests[r].stage = "new"
    /\ Commit(postMessages(World, r, conversationId))

\* a GET request arrives and its route runs up to the await
GetMessages(r, conversationId) ==
    /\ relay.requests[r].stage = "new"
    /\ Commit(getMessages(World, r, conversationId))

RedisExecute ==
    /\ relay.conn # <<>>
    /\ Commit(redisExecute(World))

\* both replies of the request's pipeline are in and its route goes on
RouteResumes(r) ==
    /\ relay.requests[r].stage = "awaiting"
    /\ relay.requests[r].replies = 2
    /\ Commit(routeResumes(World, r))

---------------------------------------------------------------------------
(* Spec: the lifecycle of one remote link, with the local peer             *)

Link == "A"

Next ==
    \/ \E s \in Requested : SetState(Link, s)
    \/ \E a \in BOOLEAN, r \in BOOLEAN : Destroy(Link, a, r)
    \/ RunImmediate
    \/ \E m \in PeerInfos : DeliverPeerInfo(Link, m)
    \/ DeliverTimekeepRequest(Link)
    \/ \E p \in {LocalPeer, Link} : DeliverOther(p)
    \/ \E p \in {LocalPeer, Link} : NoResponseTimeout(p)
    \/ \E p \in {LocalPeer, Link} : TimekeepIntervalTick(p)
    \/ InitRequestTimeout(Link)

Spec == Init /\ [][Next]_vars

(* DupSpec: two remote links and the manager's duplicate resolution        *)

DupNext ==
    \/ \E p \in Remote : SetState(p, "connected")
    \/ \E p \in Remote, a \in BOOLEAN, r \in BOOLEAN : Destroy(p, a, r)
    \/ RunImmediate
    \/ \E p \in Remote, m \in PeerInfos : DeliverPeerInfo(p, m)

DupSpec == Init /\ [][DupNext]_vars

(* RpcSpec: rpc calls and requests on the local peer and one remote link   *)

RpcNext ==
    \/ \E p \in {LocalPeer, Link}, b \in Bodies : SendRcp(p, b)
    \/ \E p \in {LocalPeer, Link}, m \in RpcResponses : DeliverRpcResponse(p, m)
    \/ \E p \in {LocalPeer, Link}, m \in RpcRequests : DeliverRpcRequest(p, m)
    \/ \E i \in 1..MaxInFlight + 1, t \in BOOLEAN, b \in Bodies : RpcHandlerSettles(i, t, b)
    \/ \E a \in BOOLEAN, r \in BOOLEAN : Destroy(Link, a, r)
    \/ RunImmediate

RpcSpec == Init /\ [][RpcNext]_vars

(* TimeSpec: the time-delta estimate of one remote link                    *)

TimeNext ==
    \/ \E m \in TimekeepResponses : DeliverTimekeepResponse(Link, m)
    \/ \E s \in Requested : SetState(Link, s)
    \/ Destroy(Link, FALSE, FALSE)
    \/ RunImmediate

TimeSpec == Init /\ [][TimeNext]_vars

(* WaitSpec: callers waiting for a remote link to be connected             *)

WaitNext ==
    \/ WaitForConnected(Link)
    \/ \E s \in Requested : SetState(Link, s)
    \/ \E r \in BOOLEAN : Destroy(Link, FALSE, r)
    \/ RunImmediate

WaitSpec == Init /\ [][WaitNext]_vars

(* ProbeSpec: probes over a link of symmetric delay                        *)

ProbeNext ==
    \/ \E sentAt \in ProbeSentAts, d \in Delays, D \in Offsets :
          ProbeRoundTrip(Link, sentAt, d, D)
    \/ SetState(Link, "connected")
    \/ RunImmediate

ProbeSpec == Init /\ [][ProbeNext]_vars

(* SinkSpec: a local device sink playing a source of the local peer or of  *)
(* a remote link whose clock is steady                                     *)

SinkNext ==
    \/ \E src \in Sources : StartSink(src)
    \/ StopSink
    \/ LatencySyncIntervalTick
    \/ \E l \in Latencies : SourceUpdate(l)
    \/ \E m \in SteadyResponses : DeliverTimekeepResponse(Link, m)
    \/ \E s \in Requested : SetState(Link, s)
    \/ \E a \in BOOLEAN, r \in BOOLEAN : Destroy(Link, a, r)
    \/ RunImmediate

SinkSpec == Init /\ [][SinkNext]_vars

(* RestartSpec: the sink is started, stopped and piped anew while the peer of
   the source takes its first samples *)
RestartNext ==
    \/ \E src \in Sources : StartSink(src)
    \/ \E src \in Sources : RestartSink(src)
    \/ StopSink
    \/ \E m \in SteadyResponses : DeliverTimekeepResponse(Link, m)
    \/ RunImmediate

RestartSpec == Init /\ [][RestartNext]_vars

(* RtpSpec: a header is encoded by getRtpHeader and parsed by parseRtpHeader *)

RtpNext ==
    \/ \E h \in Headers : GetRtpHeader(h)
    \/ ParseRtpHeader

RtpSpec == Init /\ [][RtpNext]_vars

---------------------------------------------------------------------------
(* UdpSpec: datagrams in and out of the AirPlay socket                     *)

UdpNext ==
    \/ \E port \in ClientPorts : SetClientPort(port)
    \/ \E message \in Datagrams, t \in CurrentTimes : ReceiveDatagram(message, t)
    \/ \E alacData \in AlacData, ts \in Timestamps, first \in BOOLEAN :
          SendAudioData(alacData, ts, first, 9)
    \/ \E ts \in Timestamps \ {0}, t \in CurrentTimes, isFirst \in BOOLEAN :
          SendSync(ts, t, 50, isFirst)

UdpSpec == Init /\ [][UdpNext]_vars

---------------------------------------------------------------------------
(* RelaySpec: concurrent requests to the rendezvous relay                  *)

RelayNext ==
    \/ \E r \in PostRequests, id \in ConversationIds : PostMessages(r, id)
    \/ \E r \in GetRequests, id \in ConversationIds : GetMessages(r, id)
    \/ RedisExecute
    \/ \E r \in Requests : RouteResumes(r)

RelaySpec == Init /\ [][RelayNext]_vars

---------------------------------------------------------------------------
(* BindSpec: the socket acquires its port                                  *)

BindNext ==
    \/ \E basePort \in BasePorts :
          \E occupied \in OccupiedSets(basePort) : BindToPort(basePort, occupied)
    \/ SocketListening
    \/ \E code \in ErrorCodes : SocketError(code)
    \/ \E port \in ClientPorts : SetClientPort(port)

BindSpec == Init /\ [][BindNext]_vars

---------------------------------------------------------------------------
(* What one handler run did                                                *)

Emitted(fx, p, event) ==
    Cardinality({i \in DOMAIN fx : fx[i].kind = "emit" /\ fx[i].peer = p
                                    /\ fx[i].m.type = event})

Sent(fx, p) == {fx[i].m : i \in {j \in DOMAIN fx : fx[j].kind = "send" /\ fx[j].peer = p}}

Count(fx, kind, p) ==
    Cardinality({i \in DOMAIN fx : fx[i].kind = kind /\ fx[i].peer = p})

Settled(fx) == Cardinality({i \in DOMAIN fx : fx[i].kind \in {"resolve", "reject"}})

---------------------------------------------------------------------------
(* Peer life cycle                                                         *)

\* C1: the state of a peer only moves forward: a peer that is 'deleted' stays
\* 'deleted' in every step, and a peer that is 'connected' is never
\* 'connecting' after a step.
C1_ForwardOnly ==
    [][\A p \in Peers :
          /\ peers[p].state = "deleted" => peers'[p].state = "deleted"
          /\ peers[p].state = "connected" => peers'[p].state # "connecting"]_vars

\* the half of C1 the code keeps: 'deleted' is final
DeletedIsFinal ==
    [][\A p \in Peers :
          peers[p].state = "deleted" => peers'[p].state = "deleted"]_vars

---------------------------------------------------------------------------
(* Time-delta estimate                                                     *)

\* C2: timeDelta starts at 0.  In every step and for every peer: if timeDelta
\* changes, the step handled a timekeepResponse of that peer, the ring then
\* holds at least TIMESYNC_INIT_REQUEST_COUNT samples, its median differs from
\* the old timeDelta by more than MS_DIFF_TO_UPDATE_TIME_DELTA ms, the new
\* timeDelta is that median and exactly one timedeltaUpdated was emitted; if
\* timeDelta does not change, no timedeltaUpdated is emitted (so a median
\* within MS_DIFF_TO_UPDATE_TIME_DELTA ms of timeDelta changes nothing).
C2_CommitRule ==
    /\ \A p \in Peers : peers[p].timeDelta = 0
    /\ [][\A p \in Peers :
            LET old == peers[p].timeDelta
                new == peers'[p].timeDelta
                ring == peers'[p].timedeltas
                updates == Emitted(effects', p, "timedeltaUpdated")
            IN /\ new # old =>
                    /\ Emitted(effects', p, "controllerMessage:timekeepResponse") = 1
                    /\ Len(ring) >= TIMESYNC_INIT_REQUEST_COUNT
                    /\ Abs(median(ring) - old) > InQuarterMs(MS_DIFF_TO_UPDATE_TIME_DELTA)
                    /\ new = median(ring)
                    /\ updates = 1
               /\ new = old => updates = 0]_vars

\* a median was committed: timeDelta moved off 0 and timedeltaUpdated was emitted
C2_Committed ==
    /\ peers[Link].timeDelta # 0
    /\ peers[Link].timeDelta = median(peers[Link].timedeltas)
    /\ Emitted(effects, Link, "timedeltaUpdated") = 1

\* a full ring whose median is exactly MS_DIFF_TO_UPDATE_TIME_DELTA ms off timeDelta
AtThresholdNoUpdate ==
    /\ Len(peers[Link].timedeltas) >= TIMESYNC_INIT_REQUEST_COUNT
    /\ Abs(median(peers[Link].timedeltas) - peers[Link].timeDelta)
           = InQuarterMs(MS_DIFF_TO_UPDATE_TIME_DELTA)
    /\ Emitted(effects, Link, "controllerMessage:timekeepResponse") = 1
    /\ Emitted(effects, Link, "timedeltaUpdated") = 0

---------------------------------------------------------------------------
(* Initial time-sync burst                                                 *)

\* C3: every entry of a remote peer into 'connected' schedules exactly
\* TIMESYNC_INIT_REQUEST_COUNT initial timekeep requests: once the deferred
\* stateChange callbacks of the peer have run, the number of initial timeouts
\* it has set is TIMESYNC_INIT_REQUEST_COUNT times the number of its entries.
C3_TenPerEntry ==
    \A p \in Remote :
        (\A i \in DOMAIN immediates : immediates[i][1] # p)
            => observed[p].scheduled = TIMESYNC_INIT_REQUEST_COUNT * observed[p].entered

---------------------------------------------------------------------------
(* Rpc                                                                     *)

\* C4: when the rpc listener of a peer receives a response with uuid u: if a
\* handler is registered under u, exactly one promise is settled in that step,
\* it is the promise of u, resolved with the body (rejected with an Error of
\* the body when isError), and u's slot is removed while every other slot and
\* promise is unchanged; if no handler is registered under u (never sent, or
\* already answered), nothing is settled and no slot or promise changes.
\* A destroyed peer has no rpc listener left, so the peers meant are the ones
\* that still have their listeners.
C4_RpcResponse ==
    [][\A p \in {LocalPeer, Link}, m \in RpcResponses :
          (peers[p].listeners /\ DeliverRpcResponse(p, m)) =>
              IF m.uuid \in peers[p].rpcResponseHandlers
              THEN /\ Settled(effects') = 1
                   /\ promises'[m.uuid] =
                          IF m.isError
                          THEN [state |-> "rejected", value |-> "Error: " \o m.body]
                          ELSE [state |-> "resolved", value |-> m.body]
                   /\ peers'[p].rpcResponseHandlers
                          = peers[p].rpcResponseHandlers \ {m.uuid}
                   /\ \A u \in RpcUuids \ {m.uuid} : promises'[u] = promises[u]
                   /\ \A q \in Peers \ {p} :
                          peers'[q].rpcResponseHandlers = peers[q].rpcResponseHandlers
              ELSE /\ Settled(effects') = 0
                   /\ promises' = promises
                   /\ \A q \in Peers :
                          peers'[q].rpcResponseHandlers = peers[q].rpcResponseHandlers]_vars

\* a pending call was just resolved by its response while another call is pending
C4_Resolved ==
    \E u \in RpcUuids, v \in RpcUuids :
        /\ u # v
        /\ promises[u].state = "resolved"
        /\ promises[v].state = "pending"
        /\ Count(effects, "resolve", Link) = 1
        /\ u \notin peers[Link].rpcResponseHandlers

IsResponseTo(x, m, isError) ==
    /\ x.type = "rpc"
    /\ x.isResponse
    /\ x.isError = isError
    /\ x.uuid = m.uuid
    /\ x.rpcType = m.rpcType

\* C5: when the rpc listener of a peer receives a request: for an rpcType
\* without a handler, exactly one message is sent in that step, a response
\* with the request's uuid and rpcType, isError set and a text as body; for an
\* rpcType with a handler, the handler is called and nothing is sent until it
\* settles.  When the handler of a request settles, exactly one message is
\* sent, a response with the request's uuid and rpcType that carries the
\* result without isError, or isError and the error's text when it threw; the
\* request is then done, so it gets no second response.
C5_RpcRequest ==
    [][/\ \A p \in {LocalPeer, Link}, m \in RpcRequests :
            (peers[p].listeners /\ DeliverRpcRequest(p, m)) =>
                IF m.rpcType \in HandledRpcTypes
                THEN /\ Count(effects', "send", p) = 0
                     /\ inflight' = Append(inflight, [peer |-> p, m |-> m])
                ELSE /\ Count(effects', "send", p) = 1
                     /\ \E x \in Sent(effects', p) :
                            IsResponseTo(x, m, TRUE) /\ x.body # ""
                     /\ inflight' = inflight
       /\ \A i \in 1..MaxInFlight + 1, threw \in BOOLEAN, b \in Bodies :
            RpcHandlerSettles(i, threw, b) =>
                LET r == inflight[i]
                IN /\ Count(effects', "send", r.peer) = 1
                   /\ \E x \in Sent(effects', r.peer) :
                          /\ IsResponseTo(x, r.m, threw)
                          /\ x.body = IF threw THEN "Error: " \o b ELSE b
                   /\ Len(inflight') = Len(inflight) - 1]_vars

\* a request was answered with the result of its handler
C5_Answered ==
    /\ Count(effects, "send", Link) = 1
    /\ \E x \in Sent(effects, Link), m \in RpcRequests :
           IsResponseTo(x, m, FALSE) /\ x.body \in Bodies

---------------------------------------------------------------------------
(* Duplicate links                                                         *)

ConnectedAs(ps, uuid) == {r \in Peers : ps[r].uuid = uuid /\ ps[r].state = "connected"}

\* C6: when link p receives a peerInfo with uuid X while the manager returns
\* another link q as the connected peer of uuid X: if q has the instance uuid
\* of the message, p is deleted and q stays connected; otherwise q is deleted
\* and unregistered, a disconnect is sent on q, and p is connected with the
\* uuid and instance uuid of the message.  Either way exactly one peer, the
\* survivor, is connected with uuid X after the step.  The links are two
\* peers; a peer that is returned as its own incumbent is the case of C24.
C6_DuplicateResolution ==
    [][\A p \in Remote, q \in Remote, m \in PeerInfos :
          (p # q /\ peers[p].listeners /\ DeliverPeerInfoWith(p, m, q)) =>
              /\ IF peers[q].instanceUuid = m.instanceUuid
                 THEN /\ peers'[p].state = "deleted"
                      /\ peers'[q].state = "connected"
                      /\ peers'[q].instanceUuid = m.instanceUuid
                      /\ ConnectedAs(peers', m.peerUuid) = {q}
                 ELSE /\ peers'[q].state = "deleted"
                      /\ q \notin registered'
                      /\ \E x \in Sent(effects', q) : x.type = "disconnect"
                      /\ peers'[p].state = "connected"
                      /\ peers'[p].uuid = m.peerUuid
                      /\ peers'[p].instanceUuid = m.instanceUuid
                      /\ ConnectedAs(peers', m.peerUuid) = {p}]_vars

\* a new instance has replaced the previous one: the old link was told to
\* disconnect and is deleted, the new link is connected under the same uuid
C6_Replaced ==
    \E p \in Remote, q \in Remote :
        /\ p # q
        /\ peers[q].state = "deleted"
        /\ peers[p].state = "connected"
        /\ peers[p].uuid = peers[q].uuid
        /\ peers[p].instanceUuid # peers[q].instanceUuid
        /\ \E x \in Sent(effects, q) : x.type = "disconnect"
        /\ Emitted(effects, p, "controllerMessage:peerInfo") = 1

\* a link that turned out to be a duplicate of a connected instance is deleted
DuplicateDropped ==
    \E p \in Remote, q \in Remote :
        /\ p # q
        /\ peers[p].state = "deleted"
        /\ peers[q].state = "connected"
        /\ Emitted(effects, p, "controllerMessage:peerInfo") = 1

---------------------------------------------------------------------------
(* No-response watchdog                                                    *)

\* C7: a remote peer has at most one watchdog pending and the local peer has
\* none; and in every step in which the watchdog of a remote peer expires,
\* the peer is 'deleted' afterwards and its reconnect hook onRemoteDisconnect
\* was invoked in that step.
C7_Watchdog ==
    /\ [](\A p \in Peers :
            /\ peers[p].missingPeerResponseTimeout <= 1
            /\ isLocal(p) => peers[p].missingPeerResponseTimeout = 0)
    /\ [][\A p \in Remote :
            NoResponseTimeout(p) =>
                /\ peers'[p].state = "deleted"
                /\ Count(effects', "hook", p) = 1]_vars

\* the parts of C7 the code keeps: one watchdog at most, none for the local
\* peer, and an expiry on a peer that is not yet deleted deletes it, tells
\* the remote side and invokes the hook
WatchdogOfLivePeer ==
    /\ [](\A p \in Peers :
            /\ peers[p].missingPeerResponseTimeout <= 1
            /\ isLocal(p) => peers[p].missingPeerResponseTimeout = 0)
    /\ [][\A p \in Remote :
            (peers[p].state # "deleted" /\ NoResponseTimeout(p)) =>
                /\ peers'[p].state = "deleted"
                /\ \E x \in Sent(effects', p) : x.type = "disconnect"
                /\ Count(effects', "hook", p) = 1]_vars

\* destroy has just run on a peer and left its watchdog pending
DestroyedWithWatchdog ==
    /\ peers[Link].state = "deleted"
    /\ peers[Link].missingPeerResponseTimeout = 1
    /\ Count(effects, "emit", Link) = 0
    /\ Count(effects, "manager", Link) = 1

---------------------------------------------------------------------------
(* Local device sink                                                       *)

\* C8: _startSink goes on after waitForFirstTimeSync (it opens the output
\* stream, which is counted in audioStreams) only in a step after which the
\* peer of the source is time-synchronized: it is the local peer, or its ring
\* holds at least TIMESYNC_INIT_REQUEST_COUNT samples.
C8_StartWaitsForSync ==
    [][sink'.audioStreams > sink.audioStreams =>
          LET p == sink'.pipedSource.peer
          IN isLocal(p) \/ Len(peers'[p].timedeltas) >= TIMESYNC_INIT_REQUEST_COUNT]_vars

\* a start on a source of the remote link is suspended in waitForFirstTimeSync
StartSuspended ==
    /\ sink.starting
    /\ sink.pipedSource.peer = Link
    /\ peers[Link].timesyncWaiters = 1
    /\ ~isTimeSynchronized(World, Link)

Writes(fx) == Cardinality({i \in DOMAIN fx : fx[i].kind = "write"})

\* peer.getCurrentTime(true) - source.startedAt - source.latency - now(), with
\* getCurrentTime(true) = now() + median(ring), or now() for the local peer
ExpectedDelay(ps, sk, now) ==
    LET src == sk.pipedSource
        currentTime == IF isLocal(src.peer)
                       THEN InQuarterMs(now)
                       ELSE Plus(InQuarterMs(now), median(ps[src.peer].timedeltas))
    IN Minus(Minus(Minus(currentTime, InQuarterMs(src.startedAt)),
                   InQuarterMs(src.latency)),
             InQuarterMs(now))

\* C9: in every step that writes delayFromLocalNow, the value after the
\* step is getCurrentTime(true) - startedAt - latency - now() of the piped
\* source and its peer, and the step is a resync: the first one of a start,
\* a tick of the 1 Hz interval, a timedeltaUpdated of the source's peer or an
\* update of the source.  A step that writes nothing leaves the value alone.
\* (Without samples the median is NaN and so are both sides.)
C9_DelayFromLocalNow ==
    [][/\ Writes(effects') = 0 => sink'.delayFromLocalNow = sink.delayFromLocalNow
       /\ Writes(effects') > 0 =>
            /\ \E now \in Nows :
                  sink'.delayFromLocalNow = ExpectedDelay(peers', sink', now)
            /\ \/ sink'.audioStreams > sink.audioStreams
               \/ LatencySyncIntervalTick
               \/ Emitted(effects', sink'.pipedSource.peer, "timedeltaUpdated") = 1
               \/ Emitted(effects', sink'.pipedSource.peer, "update") = 1]_vars

\* a started sink on a source of the synchronized remote link has resynced
\* after an update of the source's latency
C9_Resynced ==
    /\ sink.cleanStream
    /\ sink.pipedSource.peer = Link
    /\ isTimeSynchronized(World, Link)
    /\ Emitted(effects, Link, "update") = 1
    /\ Writes(effects) = 1
    /\ sink.pipedSource.latency # NoSource.latency
    /\ sink.delayFromLocalNow
          = median(peers[Link].timedeltas)
              - InQuarterMs(sink.pipedSource.startedAt + sink.pipedSource.latency)

---------------------------------------------------------------------------
(* RTP header                                                              *)

\* byte0 = extension bit 0x10 | source, byte1 = marker bit 0x80 | payload
\* type, bytes 2-3 = the sequence number, big-endian
EncodedAsSpecified(header, bytes) ==
    /\ bytes[1] = (IF header.extension.n = 1 THEN RTP_HEADER_A_EXTENSION ELSE 0)
                     + header.source.n
    /\ bytes[2] = (IF header.marker.n = 1 THEN RTP_HEADER_B_MARKER ELSE 0)
                     + header.payloadType.n
    /\ bytes[3] * 256 + bytes[4] = header.seqnum.n

\* C10: parseRtpHeader(getRtpHeader(header)) equals header field by field,
\* the payload type included, and the 4 bytes getRtpHeader returns are the
\* ones the wire format prescribes.
C10_RtpRoundTrip ==
    /\ rtp.stage # "idle" => EncodedAsSpecified(rtp.header, rtp.bytes)
    /\ rtp.stage = "parsed" =>
          /\ rtp.parsed.extension = rtp.header.extension
          /\ rtp.parsed.marker = rtp.header.marker
          /\ rtp.parsed.source = rtp.header.source
          /\ rtp.parsed.seqnum = rtp.header.seqnum
          /\ rtp.parsed.payloadType = rtp.header.payloadType

\* what the codec does keep: the bytes are the prescribed ones, and the
\* parsed header has the flags, source and sequence number of the header and,
\* as payloadType, the name of the enum member instead of its number
RtpRoundTripUpToName ==
    /\ rtp.stage # "idle" => EncodedAsSpecified(rtp.header, rtp.bytes)
    /\ rtp.stage = "parsed" =>
          /\ rtp.parsed.extension = rtp.header.extension
          /\ rtp.parsed.marker = rtp.header.marker
          /\ rtp.parsed.source = rtp.header.source
          /\ rtp.parsed.seqnum = rtp.header.seqnum
          /\ rtp.parsed.payloadType.t = "string"
          /\ RTP_PAYLOAD_TYPES[rtp.parsed.payloadType.s] = rtp.header.payloadType.n
          /\ getRtpHeader(rtp.parsed) # rtp.bytes

\* a sync header has been encoded and parsed
RtpParsed ==
    /\ rtp.stage = "parsed"
    /\ rtp.header.payloadType = Num(RTP_PAYLOAD_TYPES.sync)
    /\ rtp.parsed.payloadType = Str("sync")

---------------------------------------------------------------------------
(* AirPlay socket: timing reflection                                       *)

\* the k-th NTP timestamp of a timing packet, in ms
NtpSlot(data, k) ==
    parseNtpTimestamp(Slice(data, RTP_HEADER_LENGTH + 4 + k * RTP_NTP_TIMESTAMP_LENGTH))

\* the last datagram was a timingRequest, handled with a client port recorded
AnsweredTimingRequest ==
    /\ udp.ran = "message"
    /\ ~udp.threw
    /\ udp.header.payloadType = Str("timingRequest")
    /\ udp.clientPort # NoPort

\* C11: a timingRequest with send time s (ms) handled at local time t is
\* answered by one packet of payload type 0x53 that carries the request's
\* sequence number and whose three NTP timestamps decode to s, t and t (ms).
C11_TimingReflection ==
    AnsweredTimingRequest =>
        /\ Len(udp.sent) = 1
        /\ BitAnd(getUint8(udp.sent[1].data, 1), RTP_HEADER_B_PAYLOAD_TYPE)
              = RTP_PAYLOAD_TYPES.timingResponse
        /\ getUint16(udp.sent[1].data, 2) = getUint16(udp.message, 2)
        /\ NtpSlot(udp.sent[1].data, 0) = udp.parsed.sendTime
        /\ NtpSlot(udp.sent[1].data, 1) = udp.now
        /\ NtpSlot(udp.sent[1].data, 2) = udp.now

\* what the answer does carry: payload type 0x53, the sequence number of the
\* request, t in the second and third slot, and in the first slot s * 1000 ms
\* with its seconds cut to 32 bits
TimingReflectionTimes1000 ==
    AnsweredTimingRequest =>
        /\ Len(udp.sent) = 1
        /\ BitAnd(getUint8(udp.sent[1].data, 1), RTP_HEADER_B_PAYLOAD_TYPE)
              = RTP_PAYLOAD_TYPES.timingResponse
        /\ getUint16(udp.sent[1].data, 2) = getUint16(udp.message, 2)
        /\ NtpSlot(udp.sent[1].data, 0).r = 0
        /\ SubSeq(NtpSlot(udp.sent[1].data, 0).q, 1, 4)
              = SubSeq(Times1000(udp.parsed.sendTime).q, 1, 4)
        /\ NtpSlot(udp.sent[1].data, 1) = udp.now
        /\ NtpSlot(udp.sent[1].data, 2) = udp.now

\* the request of send time 1 700 000 000 000 ms has been answered at 5 000 ms
TimingRequestAnswered ==
    /\ AnsweredTimingRequest
    /\ udp.parsed.sendTime = TimeOf(1700000000, 0)
    /\ udp.now = TimeOf(5, 0)
    /\ Len(udp.sent) = 1

---------------------------------------------------------------------------
(* AirPlay socket: port acquisition                                        *)

\* the ports tried so far are basePort, basePort + 1, ... and every one but
\* the last failed with EADDRINUSE
TriedInOrder ==
    \A i \in 1..Len(udp.bind.tried) :
        /\ udp.bind.tried[i] = udp.bind.tried[1] + (i - 1)
        /\ i < Len(udp.bind.tried) => udp.bind.tried[i] \in udp.bind.occupied

\* C12: bindToPort(P) tries P, P + 1, ... in order and moves on only after
\* EADDRINUSE; it returns with serverPort the first port whose bind succeeds;
\* a bind failing with another error fails the call with that error and no
\* further port is tried; after each attempt none of its listeners is left,
\* so that only the listeners of the running attempt are registered.
C12_PortAcquisition ==
    /\ [](udp.bind.stage # "idle" =>
            /\ TriedInOrder
            /\ udp.serverPort = udp.bind.tried[Len(udp.bind.tried)]
            /\ udp.bind.attempt = Len(udp.bind.tried))
    /\ [](udp.bind.stage = "bound" => udp.serverPort \notin udp.bind.occupied)
    /\ [](udp.bind.stage = "failed" => udp.bind.error \notin {"", "EADDRINUSE"})
    /\ [](udp.bind.stage = "pending" =>
            /\ udp.listeners.error = {udp.bind.attempt}
            /\ udp.listeners.listening = {udp.bind.attempt})
    /\ [](udp.bind.stage \in {"bound", "failed"} =>
            /\ udp.listeners.error = {}
            /\ udp.listeners.listening = {})
    /\ [][udp.bind.stage \in {"bound", "failed"} =>
            /\ udp'.bind = udp.bind
            /\ udp'.serverPort = udp.serverPort]_vars

\* P and P + 1 were occupied and the socket is bound to P + 2
BoundToThirdPort ==
    /\ udp.bind.stage = "bound"
    /\ udp.bind.tried = <<5000, 5001, 5002>>
    /\ udp.bind.occupied = {5000, 5001}
    /\ udp.serverPort = 5002

---------------------------------------------------------------------------
(* AirPlay socket: no datagram without a client port                       *)

\* C13: while clientPort is -1 none of timingResponse, audioData and sync
\* passes a datagram to socket.send, and every datagram that is sent goes to
\* clientPort on clientHost.
C13_NoSendWithoutClientPort ==
    /\ udp.clientPort = NoPort => udp.sent = <<>>
    /\ \A i \in 1..Len(udp.sent) :
          /\ udp.sent[i].port = udp.clientPort
          /\ udp.sent[i].port # NoPort
          /\ udp.sent[i].host = CLIENT_HOST

\* a timingRequest has been parsed and emitted with no client port recorded,
\* and nothing was sent in answer
TimingRequestUnanswered ==
    /\ udp.ran = "message"
    /\ udp.clientPort = NoPort
    /\ udp.header.payloadType = Str("timingRequest")
    /\ Len(udp.emitted) = 2
    /\ udp.sent = <<>>

---------------------------------------------------------------------------
(* AirPlay socket: malformed datagrams                                     *)

TooShort(message) ==
    \/ Len(message) < RTP_HEADER_LENGTH
    \/ /\ BitAnd(message[2], RTP_HEADER_B_PAYLOAD_TYPE) = RTP_PAYLOAD_TYPES.timingRequest
       /\ Len(message) < RTP_HEADER_LENGTH + 4 + 3 * RTP_NTP_TIMESTAMP_LENGTH
    \/ /\ BitAnd(message[2], RTP_HEADER_B_PAYLOAD_TYPE) = RTP_PAYLOAD_TYPES.rangeResend
       /\ Len(message) < RTP_HEADER_LENGTH + 4

UnknownType(message) ==
    /\ Len(message) >= RTP_HEADER_LENGTH
    /\ \A k \in DOMAIN RTP_PAYLOAD_TYPES :
          RTP_PAYLOAD_TYPES[k] # BitAnd(message[2], RTP_HEADER_B_PAYLOAD_TYPE)

Malformed(message) == TooShort(message) \/ UnknownType(message)

\* the last datagram handled was one of the well-formed ones
WellFormedReceived ==
    /\ udp.ran = "message"
    /\ udp.message \in TimingRequests \cup RangeResends

\* C14: a datagram of unknown payload type, or shorter than the header or
\* than the body of its type, is dropped silently: the message handler does
\* not throw and emits no event; a well-formed datagram is dispatched
\* whatever came before it.
C14_MalformedDropped ==
    /\ (udp.ran = "message" /\ Malformed(udp.message)) =>
            /\ ~udp.threw
            /\ udp.emitted = <<>>
    /\ WellFormedReceived =>
            /\ ~udp.threw
            /\ Len(udp.emitted) = 2

\* what the handler does: it throws on a datagram that is too short, emits
\* 'message' (and an event named undefined) with an undefined message for an
\* unknown payload type, and dispatches a well-formed datagram whatever came
\* before it
MalformedThrowsOrSurfaces ==
    /\ (udp.ran = "message" /\ TooShort(udp.message)) =>
            /\ udp.threw
            /\ udp.emitted = <<>>
    /\ (udp.ran = "message" /\ UnknownType(udp.message)) =>
            /\ ~udp.threw
            /\ Len(udp.emitted) = 2
            /\ udp.emitted[1].event = Undefined
            /\ udp.emitted[2].event = Str("message")
            /\ udp.emitted[2].message = NoParsed
    /\ WellFormedReceived =>
            /\ ~udp.threw
            /\ Len(udp.emitted) = 2
            /\ udp.emitted[1].event = udp.header.payloadType
            /\ udp.emitted[2].event = Str("message")

\* a datagram cut short has reached the message handler
CutShortReceived ==
    /\ udp.ran = "message"
    /\ udp.message \in CutShort
    /\ udp.threw

---------------------------------------------------------------------------
(* Rendezvous relay: the drain                                             *)

Items(seq) == {seq[i] : i \in 1..Len(seq)}

\* the GET requests whose lrange was answered with the message of POST m
Holders(m) == {g \in GetRequests : m \in Items(relay.requests[g].messages)}

InList(m) == \E id \in ConversationIds : m \in Items(relay.lists[id].items)

---------------------------------------------------------------------------
(* Clock convergence                                                       *)

\* the ring of p holds n samples or more, every one of them D ms
RingOf(p, n, D) ==
    /\ Len(peers[p].timedeltas) >= n
    /\ \A i \in 1..Len(peers[p].timedeltas) : peers[p].timedeltas[i] = InQuarterMs(D)

\* C16: over a link with the same delay d in both directions to a peer whose
\* clock is D ahead, every sample pushed is D; once the ring holds 10 samples
\* of D = 137 the committed timeDelta is within 2 ms of 137, and a change of
\* timeDelta comes with a timedeltaUpdated event.
C16_SymmetricDelay ==
    /\ [][\A sentAt \in ProbeSentAts, d \in Delays, D \in Offsets :
            ProbeRoundTrip(Link, sentAt, d, D) =>
                peers'[Link].timedeltas[Len(peers'[Link].timedeltas)] = InQuarterMs(D)]_vars
    /\ [](RingOf(Link, TIMESYNC_INIT_REQUEST_COUNT, 137) =>
            Abs(peers[Link].timeDelta - InQuarterMs(137)) <= InQuarterMs(2))
    /\ [][peers'[Link].timeDelta # peers[Link].timeDelta =>
            Emitted(effects', Link, "timedeltaUpdated") = 1]_vars

\* the tenth answer of a peer 137 ms ahead has just been handled: timeDelta
\* went from 0 to 137 and timedeltaUpdated was emitted
ConvergedAfterTen ==
    /\ RingOf(Link, TIMESYNC_INIT_REQUEST_COUNT, 137)
    /\ Len(peers[Link].timedeltas) = TIMESYNC_INIT_REQUEST_COUNT
    /\ peers[Link].timeDelta = InQuarterMs(137)
    /\ Emitted(effects, Link, "timedeltaUpdated") = 1

---------------------------------------------------------------------------
(* Flush of the ring                                                       *)

\* no callback of setState is waiting to run for p
NoCallbackPending(p) == \A i \in 1..Len(immediates) : immediates[i][1] # p

\* C17: once a remote peer that was 'connected' is 'deleted' and the callbacks
\* of its transitions have run, its ring of samples is empty and
\* isTimeSynchronized is false for it.
C17_FlushedOnLeaving ==
    \A p \in Remote :
        (/\ peers[p].state = "deleted"
         /\ observed[p].entered >= 1
         /\ NoCallbackPending(p)) =>
            /\ peers[p].timedeltas = <<>>
            /\ ~isTimeSynchronized(World, p)

\* what the stateChange listener does while it is registered: a callback that
\* runs for a peer that is not 'connected' and still has its listeners
\* leaves the ring empty
FlushedWhileListening ==
    [][\A p \in Remote :
          (/\ immediates # <<>>
           /\ immediates' = Tail(immediates)
           /\ Head(immediates)[1] = p
           /\ peers[p].state # "connected"
           /\ peers[p].listeners) =>
              peers'[p].timedeltas = <<>>]_vars

\* a synchronized peer was destroyed, its callbacks have run, and its ring
\* still holds the samples
DeletedStillSynchronized ==
    /\ peers[Link].state = "deleted"
    /\ observed[Link].entered >= 1
    /\ NoCallbackPending(Link)
    /\ isTimeSynchronized(World, Link)

---------------------------------------------------------------------------
(* Timers after destroy                                                    *)

\* C18: a remote peer that is 'deleted' has no timer left (no timekeep
\* interval, no timeout of the initial burst, no watchdog), and no step
\* taken while it is 'deleted' sends a control message for it.
C18_TimersCancelled ==
    /\ [](\A p \in Remote :
            peers[p].state = "deleted" =>
                /\ ~peers[p].timekeepInterval
                /\ peers[p].initTimeouts = 0
                /\ peers[p].missingPeerResponseTimeout = 0)
    /\ [][\A p \in Remote :
            peers[p].state = "deleted" => Count(effects', "send", p) = 0]_vars

\* what destroy does cancel: the timekeep interval; and all a deleted peer
\* still sends are the timekeepRequests of the timeouts of its initial burst
OnlyIntervalCancelled ==
    /\ [](\A p \in Remote : peers[p].state = "deleted" => ~peers[p].timekeepInterval)
    /\ [][\A p \in Remote :
            (peers[p].state = "deleted" /\ Count(effects', "send", p) > 0) =>
                /\ peers'[p].initTimeouts = peers[p].initTimeouts - 1
                /\ \A x \in Sent(effects', p) : x.type = "timekeepRequest"]_vars

\* a timeout of the initial burst has fired for a deleted peer, which sent a
\* timekeepRequest
DeletedPeerProbes ==
    /\ peers[Link].state = "deleted"
    /\ peers[Link].initTimeouts < observed[Link].scheduled
    /\ \E x \in Sent(effects, Link) : x.type = "timekeepRequest"
    /\ Count(effects, "manager", Link) = 0

---------------------------------------------------------------------------
(* Rpc calls pending at destroy                                            *)

\* C19: a call of sendRcp that is pending when its peer is destroyed stays
\* pending: in no step taken while the peer is 'deleted' is its promise
\* resolved or rejected, a step that delivers a response with its uuid
\* included.
C19_PendingNeverSettles ==
    [][\A p \in Remote, u \in RpcUuids :
          (/\ peers[p].state = "deleted"
           /\ u \in peers[p].rpcResponseHandlers) =>
              /\ promises[u].state = "pending"
              /\ promises'[u] = promises[u]
              /\ u \in peers'[p].rpcResponseHandlers]_vars

\* a response with the uuid of a pending call has just been delivered to the
\* deleted peer, and the call is still pending
ResponseAfterDestroy ==
    \E u \in RpcUuids :
        /\ peers[Link].state = "deleted"
        /\ u \in peers[Link].rpcResponseHandlers
        /\ promises[u].state = "pending"
        /\ \E i \in DOMAIN effects :
              /\ effects[i].kind = "emit"
              /\ effects[i].peer = Link
              /\ effects[i].m.type = "controllerMessage:rpc"
              /\ effects[i].m.isResponse
              /\ effects[i].m.uuid = u

---------------------------------------------------------------------------
(* stateChange notifications                                               *)

\* the step runs the callback at the head of the queue, and it is one of p
RunsCallbackOf(p) ==
    /\ immediates # <<>>
    /\ Head(immediates)[1] = p
    /\ immediates' = Tail(immediates)

\* a step that changes the state of p emits no stateChange and queues one
\* callback for the new state behind those already queued
Deferred(p) ==
    peers'[p].state # peers[p].state =>
        /\ Emitted(effects', p, "stateChange") = 0
        /\ immediates' = Append(immediates, <<p, peers'[p].state>>)

\* C20: every change of the state of a peer is notified to the observers
\* registered on the peer, never in the step that changes the state: the
\* change queues a callback, the callbacks run in the order of the changes,
\* and each of them emits stateChange to the listeners of the peer.
C20_NotifiedDeferred ==
    [][\A p \in Peers :
          /\ Deferred(p)
          /\ RunsCallbackOf(p) =>
                /\ Emitted(effects', p, "stateChange") = 1
                /\ peers[p].listeners]_vars

\* what the code keeps: the notification is deferred and queued in order, and
\* the callback of a peer that was not destroyed in between reaches its
\* listeners; the callback of a destroyed peer emits stateChange to none
NotifiedUnlessDestroyed ==
    [][\A p \in Peers :
          /\ Deferred(p)
          /\ RunsCallbackOf(p) =>
                /\ Emitted(effects', p, "stateChange") = 1
                /\ peers[p].listeners <=> peers[p].state # "deleted"]_vars

\* the callback of a destroyed peer has just emitted stateChange with no
\* listener left on the peer
DeletedUnnotified ==
    /\ peers[Link].state = "deleted"
    /\ ~peers[Link].listeners
    /\ Emitted(effects, Link, "stateChange") = 1

---------------------------------------------------------------------------
(* waitForConnected                                                        *)

\* promises of waitForConnected on p resolved in the step that led here
Waited(fx, p) == Count(fx, "waited", p)

\* C21: a promise of waitForConnected is resolved only in a step after which
\* the peer is 'connected'; the stateChange callback that runs while the peer
\* is 'connected' and still has its listeners resolves every promise pending
\* on it; and a call on a 'connected' peer resolves at once.
C21_WaitForConnected ==
    [][\A p \in Remote :
          /\ Waited(effects', p) > 0 => peers'[p].state = "connected"
          /\ (RunsCallbackOf(p) /\ peers[p].state = "connected" /\ peers[p].listeners) =>
                /\ Waited(effects', p) = peers[p].connectedWaiters
                /\ peers'[p].connectedWaiters = 0
          /\ (WaitForConnected(p) /\ peers[p].state = "connected") =>
                /\ Waited(effects', p) = 1
                /\ peers'[p].connectedWaiters = peers[p].connectedWaiters]_vars

\* what the listener does: it resolves the pending promises in a stateChange
\* callback that finds the peer not 'connected', and in no other; a call on
\* a 'connected' peer resolves at once
WaitResolvesWhenNotConnected ==
    [][\A p \in Remote :
          /\ RunsCallbackOf(p) =>
                IF peers[p].state = "connected"
                THEN /\ Waited(effects', p) = 0
                     /\ peers'[p].connectedWaiters = peers[p].connectedWaiters
                ELSE /\ Waited(effects', p) = peers[p].connectedWaiters
                     /\ peers'[p].connectedWaiters = 0
          /\ (WaitForConnected(p) /\ peers[p].state = "connected") =>
                Waited(effects', p) = 1]_vars

\* the stateChange callback has run on a 'connected' peer and the promise of
\* a caller is still pending
ConnectedStillWaiting ==
    /\ peers[Link].state = "connected"
    /\ peers[Link].connectedWaiters > 0
    /\ Emitted(effects, Link, "stateChange") = 1

---------------------------------------------------------------------------
(* destroy called again                                                    *)

Disconnects(fx, p) ==
    Cardinality({i \in DOMAIN fx : fx[i].kind = "send" /\ fx[i].peer = p
                                    /\ fx[i].m.type = "disconnect"})

\* C22: only the first destroy of a peer has an effect.  A step taken while
\* the peer is 'deleted' sends no disconnect, invokes no reconnect hook and
\* leaves the peer 'deleted' and unregistered, and a destroy called in it
\* changes nothing at all; the step that deletes the peer sends at most one
\* disconnect, unregisters the peer, and invokes the hook at most once, and
\* only if that destroy was called with canTryReconnect (the watchdog's is).
C22_DestroyIdempotent ==
    [][\A p \in Remote :
          /\ peers[p].state = "deleted" =>
                /\ peers'[p].state = "deleted"
                /\ p \notin registered /\ p \notin registered'
                /\ Disconnects(effects', p) = 0
                /\ Count(effects', "hook", p) = 0
                /\ \A a \in BOOLEAN, r \in BOOLEAN :
                      Destroy(p, a, r) =>
                          /\ peers' = peers
                          /\ immediates' = immediates
                          /\ effects' = <<>>
          /\ peers[p].state # "deleted" =>
                /\ Disconnects(effects', p) <= 1
                /\ Count(effects', "hook", p) <= 1
                /\ Disconnects(effects', p) + Count(effects', "hook", p) > 0 =>
                      /\ peers'[p].state = "deleted"
                      /\ p \notin registered'
                /\ Count(effects', "hook", p) = 1 =>
                      \/ NoResponseTimeout(p)
                      \/ \E a \in BOOLEAN : Destroy(p, a, TRUE)]_vars

\* the peer is deleted, the callback of its deletion is still queued, and the
\* step that led here, a further destroy among them, had no effect
DestroyedAndQuiet ==
    /\ peers[Link].state = "deleted"
    /\ Link \notin registered
    /\ ~NoCallbackPending(Link)
    /\ peers[Link].missingPeerResponseTimeout = 0
    /\ effects = <<>>

---------------------------------------------------------------------------
(* _stopSink and the starts it meets                                       *)

\* what a started sink keeps running: output streams, 1 Hz intervals and the
\* listeners of the source's 'update' and of 'timedeltaUpdated' on any peer
RECURSIVE TimedeltaListeners(_, _)
TimedeltaListeners(ps, S) ==
    IF S = {} THEN 0
    ELSE LET q == CHOOSE x \in S : TRUE
         IN ps[q].timedeltaListeners + TimedeltaListeners(ps, S \ {q})

Machinery(ps, sk) ==
    sk.audioStreams + sk.latencySyncIntervals + sk.sourceUpdateListeners
        + TimedeltaListeners(ps, DOMAIN ps)

\* C23: when _stopSink has returned the sink runs nothing (no output stream,
\* no 1 Hz interval, no listener of timedeltaUpdated or of the source's
\* update), also when it was called while _startSink was suspended in
\* waitForFirstTimeSync: whatever runs in any state is what a later _stopSink
\* cleans up, so that without a cleanStream to call nothing runs.
C23_StopLeavesNothing ==
    /\ [](~sink.cleanStream => Machinery(peers, sink) = 0)
    /\ [][StopSink => Machinery(peers', sink') = 0]_vars

\* the output streams no cleanStream stops
Leaked(sk) == sk.audioStreams - (IF sk.cleanStream THEN 1 ELSE 0)

\* what holds of _stopSink: it stops one stream, one interval and one listener
\* of each kind when a cleanStream is stored and nothing otherwise, and the
\* streams that no cleanStream stops are never stopped
StopCleansTheLastStart ==
    [][/\ StopSink =>
            Machinery(peers', sink')
                = Machinery(peers, sink) - (IF sink.cleanStream THEN 4 ELSE 0)
       /\ Leaked(sink') >= Leaked(sink)
       /\ Leaked(sink) >= 0]_vars

\* the sink was piped anew while a start was suspended; both starts went on
\* and _stopSink has been called since: a stream, an interval and the
\* listeners of the first start run, and there is no cleanStream
StoppedYetRunning ==
    /\ ~sink.cleanStream
    /\ ~sink.starting
    /\ sink.audioStreams = 1
    /\ sink.latencySyncIntervals = 1
    /\ sink.sourceUpdateListeners = 1
    /\ peers[Link].timedeltaListeners = 1
    /\ effects = <<>>

---------------------------------------------------------------------------
(* peerInfo that repeats the peer's own identity                           *)

\* p is 'connected', registered and known by the identity m carries, and no
\* other registered peer is 'connected' under that uuid
OwnIdentity(p, m) ==
    /\ peers[p].state = "connected"
    /\ p \in registered
    /\ peers[p].uuid = m.peerUuid
    /\ peers[p].instanceUuid = m.instanceUuid
    /\ getConnectedPeerByUuid(World, m.peerUuid) = {p}

\* C24: a 'connected' peer that receives a peerInfo with its own uuid and its
\* own instance uuid stays 'connected' and registered, and is afterwards the
\* one registered 'connected' peer of that uuid.
C24_IdentityRefresh ==
    [][\A p \in Remote, m \in PeerInfos :
          OwnIdentity(p, m) /\ DeliverPeerInfoWith(p, m, p) =>
              /\ peers'[p].state = "connected"
              /\ p \in registered'
              /\ {q \in registered' : /\ peers'[q].uuid = m.peerUuid
                                      /\ peers'[q].state = "connected"} = {p}]_vars

\* what the handler does instead: the manager returns the peer itself, the
\* instance uuids are equal, and the peer destroys itself as its own
\* duplicate, without advertising it: it is 'deleted', unregistered, and no
\* registered peer is left 'connected' under the uuid
RefreshDestroysItself ==
    [][\A p \in Remote, m \in PeerInfos :
          OwnIdentity(p, m) /\ DeliverPeerInfoWith(p, m, p) =>
              /\ peers'[p].state = "deleted"
              /\ p \notin registered'
              /\ Disconnects(effects', p) = 0
              /\ {q \in registered' : /\ peers'[q].uuid = m.peerUuid
                                      /\ peers'[q].state = "connected"} = {}]_vars

\* the link was destroyed in the step that delivered the peerInfo repeating
\* its identity: the manager knew no other peer under the uuid, and nothing
\* was advertised
RefreshedAndDeleted ==
    /\ peers[Link].state = "deleted"
    /\ Link \notin registered
    /\ \A q \in Peers \ {Link} : peers[q].uuid # peers[Link].uuid
    /\ \E i \in DOMAIN effects :
          /\ effects[i].kind = "emit"
          /\ effects[i].peer = Link
          /\ effects[i].m.type = "controllerMessage:peerInfo"
          /\ effects[i].m.peerUuid = peers[Link].uuid
          /\ effects[i].m.instanceUuid = peers[Link].instanceUuid
    /\ \E i \in DOMAIN effects :
          /\ effects[i].kind = "manager"
          /\ effects[i].peer = Link
          /\ effects[i].m.type = "peerChange"
    /\ Disconnects(effects, Link) = 0

=============================================================================
